---- MODULE Spec2Model ----
(***************************************************************************)
(* Model of the ProxmoxMCP repository.                                     *)
(*                                                                         *)
(*  - Spec      : the simple server's dispatcher (simple-proxmox-mcp/      *)
(*                server.py: handle_mcp_request, run_proxmox_api,          *)
(*                load_config) together with the proxmox_api.py subprocess *)
(*                it starts for each remote operation.                     *)
(*  - SpecTools : the handlers of the full server (proxmox_mcp/tools):     *)
(*                the cluster-wide fan-out listings and the template       *)
(*                operations, against a remote API that may raise.         *)
(*  - SpecMain  : the simple server's interactive loop (server.py main):   *)
(*                lines read from standard input, responses printed.       *)
(*  - SpecRender : the output templates of the full server                 *)
(*                (proxmox_mcp/formatting/templates.py) and the            *)
(*                configuration projections and record builders of the     *)
(*                tools, applied to bounded sets of input data.            *)
(*  - SpecRuns  : an operation of proxmox_api.py run twice against the     *)
(*                same remote answers.                                     *)
(*  - SpecWait  : wait_for_task of proxmox_api.py, one loop step at a time.*)
(***************************************************************************)
EXTENDS Integers, Sequences, FiniteSets, TLC

VARIABLES
    request,      \* the request last handed to handle_mcp_request
    env,          \* what the world did while it was served (config file, subprocess, remote API)
    apiCalls,     \* the run_proxmox_api invocations made for that request, in order
    response,     \* the value handle_mcp_request returned
    server,       \* "ready" | "returned" | "exited" (the interpreter left by SystemExit)
    script,       \* what the proxmox_api.py subprocess of that request did
    toolCall,     \* full server: the tool operation last invoked, with its arguments
    remote,       \* full server: how the remote API answered the operation's calls
    remoteLog,    \* full server: the remote API calls the operation issued, in order
    toolResult,   \* full server: how the operation ended
    input,        \* interactive loop: the lines standard input holds, then end-of-file
    lineNo,       \* interactive loop: how many of them have been read
    printed,      \* interactive loop: the response lines printed, each with the line it answers
    once,         \* interactive loop: the --once flag
    atEof,        \* interactive loop: a read has returned end-of-file
    rendering,    \* formatting: the template last applied, with the data it was given
    rendered,     \* formatting: the lines it returned (joined with "\n" by the template),
                  \* or, where rendering.part is "pairs", its used/total lines alone
    invocation,   \* repeated runs: the operation run, its arguments and the remote's answers
    outcomes,     \* repeated runs: what each run of it so far returned
    waiting       \* wait_for_task step by step: where the loop is and what it has seen

vars == <<request, env, apiCalls, response, server, script, toolCall, remote, remoteLog, toolResult,
          input, lineNo, printed, once, atEof, rendering, rendered,
          invocation, outcomes, waiting>>
renderVars == <<rendering, rendered>>
runVars == <<invocation, outcomes, waiting>>
mainVars == <<input, lineNo, printed, once, atEof>>
simpleVars == <<request, env, apiCalls, response, server, script>>
toolVars == <<toolCall, remote, remoteLog, toolResult>>

(***************************************************************************)
(* Bounds                                                                  *)
(***************************************************************************)
MaxNodes == 3
MaxItems == 2

(***************************************************************************)
(* Python values of request arguments.  A key that is not in the mapping   *)
(* is Absent; the other tokens are the JSON values null, "", 0, false,     *)
(* true and one non-empty string.                                          *)
(***************************************************************************)
Absent == "<absent>"
None == "None"
EmptyStr == ""
IntZero == "int:0"
PyFalse == "bool:False"
PyTrue == "bool:True"
SomeStr == "pve1"
Int300 == "int:300"
Int60 == "int:60"
Int15 == "int:15"
IntOne == "int:1"
IntNeg == "int:-5"

\* Python truthiness: `not v`
Falsy == {None, EmptyStr, IntZero, PyFalse}
\* (mutant of Not: `v is None` written for `not v`, so "" and 0 pass the check)
NotIsNone(v) == v = None
Not(v) == v \in Falsy

ArgNames == {"node", "vmid", "command", "template_vmid", "new_vm_name", "target_node",
             "full_clone", "storage", "cpu", "memory", "name", "description",
             "task_id", "timeout"}

\* dict.get(key) and dict.get(key, default)
Get(arguments, key) == IF arguments[key] = Absent THEN None ELSE arguments[key]
GetDefault(arguments, key, default) ==
    IF arguments[key] = Absent THEN default ELSE arguments[key]

(***************************************************************************)
(* JSON documents.  `keys` is the set of keys a dict holds; `success` and  *)
(* `error` mean something only when their key is in `keys`; `payload` is   *)
(* the list a listing carries.  A raw remote payload (type "raw") is       *)
(* passed on as the remote API gave it and has none of the envelope keys.  *)
(***************************************************************************)
ErrorDict(msg) ==
    [type |-> "dict", keys |-> {"error"}, success |-> FALSE, error |-> msg, payload |-> <<>>]
RawPayload(p) ==
    [type |-> "raw", keys |-> {}, success |-> FALSE, error |-> "", payload |-> p]
ResultDict(keys, success, p) ==
    [type |-> "dict", keys |-> keys, success |-> success, error |-> "", payload |-> p]
NoValue == [type |-> "none", keys |-> {}, success |-> FALSE, error |-> "", payload |-> <<>>]

(***************************************************************************)
(* The operation catalog of the simple server (mcp_server_info).           *)
(***************************************************************************)
Catalog == {"get_nodes", "get_node_status", "get_vms", "execute_vm_command",
            "get_storage", "get_cluster_status", "get_templates", "clone_template",
            "start_vm", "stop_vm", "reboot_vm", "update_vm_config", "get_vm_config",
            "get_task_status", "wait_for_task"}

\* input_schema.required of each catalog entry
RequiredArgs(tool) ==
    CASE tool = "get_node_status" -> {"node"}
      [] tool = "execute_vm_command" -> {"node", "vmid", "command"}
      [] tool = "clone_template" -> {"node", "template_vmid", "new_vm_name"}
      [] tool \in {"start_vm", "stop_vm", "reboot_vm", "update_vm_config", "get_vm_config"} ->
            {"node", "vmid"}
      [] tool \in {"get_task_status", "wait_for_task"} -> {"node", "task_id"}
      [] OTHER -> {}

\* input_schema.properties that are not required
OptionalArgs(tool) ==
    CASE tool = "clone_template" -> {"target_node", "full_clone", "storage"}
      [] tool = "update_vm_config" -> {"cpu", "memory", "name", "description"}
      [] tool = "wait_for_task" -> {"timeout"}
      [] OTHER -> {}

(***************************************************************************)
(* What the world does while one request is served.                        *)
(*   cfg     : load_config finds config.json readable ("ok"), unreadable   *)
(*             or unparsable ("unreadable"), or readable but without the   *)
(*             keys run_proxmox_api reads ("incomplete")                   *)
(*   proc    : subprocess.run starts the script ("ok"), raises something   *)
(*             other than CalledProcessError ("spawn_error"), or the       *)
(*             script cannot connect and exits 1 ("connect_fail")          *)
(*   call    : the operation's first remote call returns or raises         *)
(*   perNode : for the fan-out actions, the answer of each node's listing  *)
(*   task    : for wait_for_task, how the polling ends                     *)
(***************************************************************************)
VmStatuses == {"running", "stopped"}
Vm(id, st, tpl) == [vmid |-> id, status |-> st, template |-> tpl, node |-> ""]
NodeVmLists == {<<>>} \cup {<<Vm(100, st, tpl)>> : st \in VmStatuses, tpl \in {0, 1}}
NodeAnswers == [raises : {TRUE}, vms : {<<>>}] \cup [raises : {FALSE}, vms : NodeVmLists]
NodeName(i) == "pve" \o ToString(i)

SeqsUpTo(S, n) == UNION {[1..k -> S] : k \in 0..n}

FanOutActions == {"get_vms", "get_templates"}
\* The remote task wait_for_task polls: the first `running` polls find it not
\* stopped; the next one finds it stopped with exit status OK ("stopped_ok") or an
\* error ("stopped_error"), or raises ("poll_raise"); with "never" every poll finds
\* it running.  Each poll takes `takes` seconds to be answered (a slow remote:
\* PollTakes or one second more, which keeps a 300 second wait to some 30 polls).
TaskEndings == {"stopped_ok", "stopped_error", "poll_raise", "never"}
MaxRunningPolls == 2
PollTakes == 8
RemoteTask(running, ending, takes) == [running |-> running, then |-> ending, takes |-> takes]
RemoteTasks ==
    {RemoteTask(n, t, d) :
        n \in 0..MaxRunningPolls, t \in TaskEndings, d \in PollTakes..(PollTakes + 1)}

DefaultEnv ==
    [cfg |-> "ok", proc |-> "ok", call |-> "ok", perNode |-> <<>>,
     task |-> RemoteTask(0, "stopped_ok", 0)]

Envs(tool) ==
    {[DefaultEnv EXCEPT !.cfg = c] : c \in {"unreadable", "incomplete"}}
    \cup {[DefaultEnv EXCEPT !.proc = p] : p \in {"spawn_error", "connect_fail"}}
    \cup {[DefaultEnv EXCEPT !.call = "raise"]}
    \cup (IF tool \in FanOutActions
          THEN {[DefaultEnv EXCEPT !.perNode = pn] : pn \in SeqsUpTo(NodeAnswers, MaxNodes)}
          ELSE IF tool = "wait_for_task"
          THEN {[DefaultEnv EXCEPT !.task = t] : t \in RemoteTasks}
          ELSE {DefaultEnv})

(***************************************************************************)
(* proxmox_api.py: the functions the subprocess runs.  Each yields the     *)
(* JSON documents the script prints on stdout, the last one being the      *)
(* result main() prints.                                                   *)
(***************************************************************************)

\* get_vms / get_templates: the loop over the nodes, one remote listing per node
RECURSIVE CollectVms(_, _)
CollectVms(perNode, i) ==
    IF i > Len(perNode) THEN <<>>
    ELSE (IF perNode[i].raises THEN <<>> ELSE perNode[i].vms) \o CollectVms(perNode, i + 1)

\* the error documents the loop prints for the nodes whose listing raised
RECURSIVE NodeErrorPrints(_, _, _)
NodeErrorPrints(what, perNode, i) ==
    IF i > Len(perNode) THEN <<>>
    ELSE (IF perNode[i].raises
          THEN <<ErrorDict("Failed to get " \o what \o " for node " \o NodeName(i))>>
          ELSE <<>>)
         \o NodeErrorPrints(what, perNode, i + 1)

get_vms(e) ==
    IF e.call = "raise" THEN <<ErrorDict("Failed to get VMs")>>
    ELSE NodeErrorPrints("VMs", e.perNode, 1)
         \o <<ResultDict({"total_vms", "total_running", "nodes", "vms"}, FALSE,
                         CollectVms(e.perNode, 1))>>

\* get_templates keeps the VMs with template == 1 and writes the node's name into each
RECURSIVE CollectTemplates(_, _)
CollectTemplates(perNode, i) ==
    IF i > Len(perNode) THEN <<>>
    ELSE (IF perNode[i].raises THEN <<>>
          ELSE LET node_templates == SelectSeq(perNode[i].vms, LAMBDA vm : vm.template = 1)
               IN [j \in 1..Len(node_templates) |->
                      [node_templates[j] EXCEPT !.node = NodeName(i)]])
         \o CollectTemplates(perNode, i + 1)

get_templates(e) ==
    IF e.call = "raise" THEN <<ErrorDict("Failed to get templates")>>
    ELSE NodeErrorPrints("templates", e.perNode, 1)
         \o <<ResultDict({"total_templates", "templates"}, FALSE,
                         CollectTemplates(e.perNode, 1))>>

\* get_nodes, get_node_status, execute_vm_command, get_storage, get_cluster_status,
\* get_vm_config, get_task_status: one remote call, its payload returned as it is
PassThrough(what, e) ==
    IF e.call = "raise" THEN <<ErrorDict("Failed to " \o what)>> ELSE <<RawPayload(<<>>)>>

\* start_vm, stop_vm, reboot_vm
PowerOp(what, e) ==
    IF e.call = "raise" THEN <<ErrorDict("Failed to " \o what)>>
    ELSE <<ResultDict({"success", "task_id", "message"}, TRUE, <<>>)>>

clone_template(e) ==
    IF e.call = "raise" THEN <<ErrorDict("Failed to clone template")>>
    ELSE <<ResultDict({"success", "task_id", "new_vmid", "message"}, TRUE, <<>>)>>

\* clone_params['full'] of the clone.post it issues: 1 if full_clone else 0
\* (mutant of CloneFull: always a full clone)
CloneFullAlways(full_clone) == IntOne
CloneFull(full_clone) == IF Not(full_clone) THEN IntZero ELSE IntOne

update_vm_config(args, e) ==
    IF \A k \in {"cpu", "memory", "name", "description"} : args[k] = None
    THEN <<ErrorDict("No configuration parameters provided")>>
    ELSE IF e.call = "raise" THEN <<ErrorDict("Failed to update VM configuration")>>
    ELSE <<ResultDict({"success", "message", "updated_params"}, TRUE, <<>>)>>

\* the seconds a Python int token stands for
NumOf(v) ==
    CASE v = Int300 -> 300 [] v = Int60 -> 60 [] v = Int15 -> 15 [] v = IntOne -> 1
      [] v = IntNeg -> 0 - 5 [] OTHER -> 0

\* wait_for_task(proxmox, node, task_id, timeout, interval=2)
Interval == 2
TimeoutError(timeout) ==
    ErrorDict("Task did not complete within " \o ToString(NumOf(timeout)) \o " seconds")
Waited(doc, polls) == [doc |-> doc, polls |-> polls]

\* The while loop (lines 290-300).  `elapsed` is time.time() - start_time at the
\* loop test, k the number of the poll about to be made, polls the elapsed times
\* at which the polls so far were started.
\* (mutant of PollLoop: the loop test is made after the poll, as in a do-while)
RECURSIVE PollLoopTestAfter(_, _, _, _, _)
PollLoopTestAfter(elapsed, k, timeout, task, polls) ==
    LET made == Append(polls, elapsed) IN
    IF task.then # "never" /\ k > task.running
    THEN CASE task.then = "stopped_ok" -> Waited(ResultDict({"success", "status"}, TRUE, <<>>), made)
           [] task.then = "stopped_error" ->
                 Waited(ResultDict({"success", "status"}, FALSE, <<>>), made)
           [] OTHER -> Waited(ErrorDict("Error checking task status"), made)
    ELSE IF ~(elapsed + task.takes + Interval < NumOf(timeout))
    THEN Waited(TimeoutError(timeout), made)
    ELSE PollLoopTestAfter(elapsed + task.takes + Interval, k + 1, timeout, task, made)

\* (mutant of PollLoop: a stopped task is reported as a success whatever its
\* exit status)
RECURSIVE PollLoopAnyExit(_, _, _, _, _)
PollLoopAnyExit(elapsed, k, timeout, task, polls) ==
    IF ~(elapsed < NumOf(timeout)) THEN Waited(TimeoutError(timeout), polls)
    ELSE LET made == Append(polls, elapsed) IN
         IF task.then # "never" /\ k > task.running
         THEN CASE task.then \in {"stopped_ok", "stopped_error"} ->
                      Waited(ResultDict({"success", "status"}, TRUE, <<>>), made)
                [] OTHER -> Waited(ErrorDict("Error checking task status"), made)
         ELSE PollLoopAnyExit(elapsed + task.takes + Interval, k + 1, timeout, task, made)

RECURSIVE PollLoop(_, _, _, _, _)
PollLoop(elapsed, k, timeout, task, polls) ==
    IF ~(elapsed < NumOf(timeout)) THEN Waited(TimeoutError(timeout), polls)
    ELSE LET made == Append(polls, elapsed) IN
         IF task.then # "never" /\ k > task.running
         THEN CASE task.then = "stopped_ok" ->
                      Waited(ResultDict({"success", "status"}, TRUE, <<>>), made)
                [] task.then = "stopped_error" ->
                      Waited(ResultDict({"success", "status"}, FALSE, <<>>), made)
                [] OTHER -> Waited(ErrorDict("Error checking task status"), made)
         ELSE \* status is not 'stopped': time.sleep(interval) and test again
              PollLoop(elapsed + task.takes + Interval, k + 1, timeout, task, made)

wait_for_task(timeout, e) == PollLoop(0, 1, timeout, e.task, <<>>)

(***************************************************************************)
(* server.py: run_proxmox_api.                                             *)
(***************************************************************************)

\* str(value) on the command line, and argparse's type=int on the other side
StrOf(v) ==
    CASE v = Int300 -> "300" [] v = Int60 -> "60" [] v = IntZero -> "0"
      [] v = Int15 -> "15" [] v = IntNeg -> "-5" [] OTHER -> v
IntOf(s) ==
    CASE s = "300" -> Int300 [] s = "60" -> Int60 [] s = "0" -> IntZero
      [] s = "15" -> Int15 [] s = "-5" -> IntNeg [] OTHER -> s

\* The command line built from kwargs (lines 55-64): a None value is left out, a
\* bool becomes a bare flag when true and nothing when false, anything else
\* becomes the flag followed by str(value).  The result maps each flag present on
\* the command line to its text (PyTrue for a bare flag).
CmdFlags(kwargs) ==
    [k \in {x \in DOMAIN kwargs : kwargs[x] # None /\ kwargs[x] # PyFalse} |->
        IF kwargs[k] = PyTrue THEN PyTrue ELSE StrOf(kwargs[k])]

\* proxmox_api.py main(): argparse's namespace for that command line.  A flag that
\* is not given has its default: None, False for --full-clone, 300 for --timeout.
ParsedArgs(flags) ==
    [k \in ArgNames |->
        IF k \in DOMAIN flags
        THEN (IF k \in {"cpu", "memory", "timeout"} THEN IntOf(flags[k]) ELSE flags[k])
        ELSE CASE k = "full_clone" -> PyFalse
               [] k = "timeout" -> Int300
               [] OTHER -> None]

\* proxmox_api.py main(): the documents on stdout when the script exits 0
ScriptStdout(action, args, e) ==
    CASE action = "get_vms" -> get_vms(e)
      [] action = "get_templates" -> get_templates(e)
      [] action \in {"start_vm", "stop_vm", "reboot_vm"} -> PowerOp(action, e)
      [] action = "clone_template" -> clone_template(e)
      [] action = "update_vm_config" -> update_vm_config(args, e)
      [] action = "wait_for_task" -> <<wait_for_task(args["timeout"], e).doc>>
      [] OTHER -> PassThrough(action, e)

\* What the subprocess did besides printing: the `full` parameter of the
\* clone.post it issued, the timeout wait_for_task was called with and the elapsed
\* times at which it polled the task (None / no polls for the other actions).
NoScript == [ran |-> FALSE, full |-> None, timeout |-> None, polls |-> <<>>]
ScriptRun(action, args, e) ==
    CASE action = "clone_template" ->
            [NoScript EXCEPT !.ran = TRUE, !.full = CloneFull(args["full_clone"])]
      [] action = "wait_for_task" ->
            [NoScript EXCEPT !.ran = TRUE, !.timeout = args["timeout"],
                             !.polls = wait_for_task(args["timeout"], e).polls]
      [] OTHER -> [NoScript EXCEPT !.ran = TRUE]

\* json.loads(result.stdout): one document parses; anything else on stdout
\* ("Extra data", nothing at all) raises JSONDecodeError
JsonLoads(stdout) ==
    IF Len(stdout) = 1 THEN [ok |-> TRUE, value |-> stdout[1]]
    ELSE [ok |-> FALSE, value |-> NoValue]

\* load_config: the configuration, or SystemExit (sys.exit(1) in its except clause)
load_config(e) == IF e.cfg = "unreadable" THEN "SystemExit" ELSE e.cfg

\* run_proxmox_api: how the call ends.  kind "return" carries the value returned,
\* "raise" is an Exception leaving the function, "SystemExit" is sys.exit leaving it.
run_proxmox_api(action, kwargs, e) ==
    LET config == load_config(e) IN
    IF config = "SystemExit" THEN [kind |-> "SystemExit", value |-> NoValue, script |-> NoScript]
    ELSE IF config = "incomplete" THEN [kind |-> "raise", value |-> NoValue, script |-> NoScript]
    ELSE IF e.proc = "spawn_error"
         THEN [kind |-> "return", value |-> ErrorDict("Error running command"),
               script |-> NoScript]
    ELSE IF e.proc = "connect_fail"
         THEN [kind |-> "return", value |-> ErrorDict("Command failed"), script |-> NoScript]
    ELSE LET args == ParsedArgs(CmdFlags(kwargs))
             parsed == JsonLoads(ScriptStdout(action, args, e))
             ran == ScriptRun(action, args, e)
         IN
         IF parsed.ok THEN [kind |-> "return", value |-> parsed.value, script |-> ran]
         ELSE [kind |-> "return", value |-> ErrorDict("Failed to parse JSON output"),
               script |-> ran]

(***************************************************************************)
(* server.py: handle_mcp_request.                                          *)
(***************************************************************************)
NoKwargs == [k \in {} |-> None]
Return(doc) == [call |-> FALSE, value |-> doc, action |-> "", kwargs |-> NoKwargs]
Call(action, kwargs) == [call |-> TRUE, value |-> NoValue, action |-> action, kwargs |-> kwargs]

\* The branches that never touch `arguments`
NoArgumentTools == {"get_nodes", "get_vms", "get_storage", "get_cluster_status", "get_templates"}

\* The if/elif chain of lines 87-207: either a value returned at once, or the one
\* run_proxmox_api call of the branch.
Dispatch(tool_name, arguments) ==
    LET node == Get(arguments, "node")
        vmid == Get(arguments, "vmid")
        task_id == Get(arguments, "task_id")
    IN
    CASE tool_name \in NoArgumentTools -> Call(tool_name, NoKwargs)
      [] tool_name = "get_node_status" ->
            IF Not(node)
            THEN Return(ErrorDict("Node name is required for get_node_status"))
            ELSE Call("get_node_status", [node |-> node])
      [] tool_name = "execute_vm_command" ->
            LET command == Get(arguments, "command") IN
            IF Not(node) \/ Not(vmid) \/ Not(command)
            THEN Return(ErrorDict("Node name, VM ID, and command are required for execute_vm_command"))
            ELSE Call("execute_vm_command", [node |-> node, vmid |-> vmid, command |-> command])
      [] tool_name = "clone_template" ->
            LET template_vmid == Get(arguments, "template_vmid")
                new_vm_name == Get(arguments, "new_vm_name")
                target_node == Get(arguments, "target_node")
                full_clone == GetDefault(arguments, "full_clone", PyTrue)
                storage == Get(arguments, "storage")
            IN
            IF Not(node) \/ Not(template_vmid) \/ Not(new_vm_name)
            THEN Return(ErrorDict("Node name, template VM ID, and new VM name are required for clone_template"))
            ELSE Call("clone_template",
                      [node |-> node, vmid |-> template_vmid, new_vm_name |-> new_vm_name,
                       target_node |-> target_node, full_clone |-> full_clone,
                       storage |-> storage])
      [] tool_name \in {"start_vm", "stop_vm", "reboot_vm", "get_vm_config"} ->
            IF Not(node) \/ Not(vmid)
            THEN Return(ErrorDict("Node name and VM ID are required for " \o tool_name))
            ELSE Call(tool_name, [node |-> node, vmid |-> vmid])
      [] tool_name = "update_vm_config" ->
            IF Not(node) \/ Not(vmid)
            THEN Return(ErrorDict("Node name and VM ID are required for update_vm_config"))
            ELSE Call("update_vm_config",
                      [node |-> node, vmid |-> vmid, cpu |-> Get(arguments, "cpu"),
                       memory |-> Get(arguments, "memory"), name |-> Get(arguments, "name"),
                       description |-> Get(arguments, "description")])
      [] tool_name = "get_task_status" ->
            IF Not(node) \/ Not(task_id)
            THEN Return(ErrorDict("Node name and task ID are required for get_task_status"))
            ELSE Call("get_task_status", [node |-> node, task_id |-> task_id])
      [] tool_name = "wait_for_task" ->
            LET timeout == GetDefault(arguments, "timeout", Int300) IN
            IF Not(node) \/ Not(task_id)
            THEN Return(ErrorDict("Node name and task ID are required for wait_for_task"))
            ELSE Call("wait_for_task", [node |-> node, task_id |-> task_id, timeout |-> timeout])
      [] OTHER -> Return(ErrorDict("Unknown tool: " \o tool_name))

\* What one run of handle_mcp_request does: the value it returns, the
\* run_proxmox_api calls it made, and whether SystemExit left it instead of a value.
Handled(value, calls, exit, ran) ==
    [value |-> value, calls |-> calls, exit |-> exit, script |-> ran]

\* (mutant of handle_mcp_request: the call is issued again when it returned an error)
handle_mcp_request_retry(req, e) ==
    IF ~req.isMap /\ req.tool \notin NoArgumentTools /\ req.tool \in Catalog
    THEN Handled(ErrorDict("Error handling MCP request"), <<>>, FALSE, NoScript)
    ELSE LET d == Dispatch(req.tool, req.arguments) IN
         IF ~d.call THEN Handled(d.value, <<>>, FALSE, NoScript)
         ELSE LET r == run_proxmox_api(d.action, d.kwargs, e)
                  one == [action |-> d.action, kwargs |-> d.kwargs]
                  calls == IF r.kind = "return" /\ "error" \in r.value.keys
                           THEN <<one, one>> ELSE <<one>>
              IN CASE r.kind = "return" -> Handled(r.value, calls, FALSE, r.script)
                   [] r.kind = "raise" ->
                        Handled(ErrorDict("Error handling MCP request"), calls, FALSE, r.script)
                   [] OTHER -> Handled(NoValue, calls, TRUE, r.script)

handle_mcp_request(req, e) ==
    IF ~req.isMap /\ req.tool \notin NoArgumentTools /\ req.tool \in Catalog
    THEN \* arguments.get raises AttributeError: the except clause of line 208
         Handled(ErrorDict("Error handling MCP request"), <<>>, FALSE, NoScript)
    ELSE LET d == Dispatch(req.tool, req.arguments) IN
         IF ~d.call THEN Handled(d.value, <<>>, FALSE, NoScript)
         ELSE LET r == run_proxmox_api(d.action, d.kwargs, e)
                  calls == <<[action |-> d.action, kwargs |-> d.kwargs]>>
              IN CASE r.kind = "return" -> Handled(r.value, calls, FALSE, r.script)
                   [] r.kind = "raise" ->
                        Handled(ErrorDict("Error handling MCP request"), calls, FALSE, r.script)
                   [] OTHER -> Handled(NoValue, calls, TRUE, r.script)

(***************************************************************************)
(* The requests of the model.                                              *)
(***************************************************************************)
RequiredValues == {Absent, None, EmptyStr, IntZero, SomeStr}
FullCloneValues == {Absent, None, PyTrue, PyFalse}
TimeoutValues == {Absent, None, IntNeg, IntZero, Int15, Int60}
\* the value an optional argument has when the request carries it
PresentValue(k) == IF k \in {"cpu", "memory"} THEN Int60 ELSE SomeStr

ArgumentsOf(tool) ==
    LET plain == OptionalArgs(tool) \ {"full_clone", "timeout"} IN
    {[k \in ArgNames |->
        IF k \in RequiredArgs(tool) THEN r[k]
        ELSE IF k \in plain THEN (IF o[k] THEN PresentValue(k) ELSE Absent)
        ELSE IF k = "full_clone" THEN fc
        ELSE IF k = "timeout" THEN tm
        ELSE Absent] :
        r \in [RequiredArgs(tool) -> RequiredValues],
        o \in [plain -> BOOLEAN],
        fc \in IF "full_clone" \in OptionalArgs(tool) THEN FullCloneValues ELSE {Absent},
        tm \in IF "timeout" \in OptionalArgs(tool) THEN TimeoutValues ELSE {Absent}}

NoArguments == [k \in ArgNames |-> Absent]
ToolNames == Catalog \cup {"unknown_op", None}

Requests ==
    UNION {{[tool |-> t, isMap |-> TRUE, arguments |-> a] : a \in ArgumentsOf(t)} :
              t \in ToolNames}
    \cup {[tool |-> t, isMap |-> FALSE, arguments |-> NoArguments] : t \in ToolNames}

(***************************************************************************)
(* The full server's tool classes (proxmox_mcp/tools).  An operation ends  *)
(* either in self._format_response(data, resource_type) or in              *)
(* self._handle_error(operation, e); toolResult.via says which, and holds  *)
(* the arguments of that call.                                             *)
(***************************************************************************)
NoToolCall ==
    [op |-> "", node |-> "", limit |-> 0, name |-> FALSE, description |-> FALSE,
     cores |-> FALSE, memory |-> FALSE, target_vmid |-> FALSE]

\* What a remote post hands back, and what an operation puts under "task_id":
\* the task reference as a str, a dict {"data": <reference>}, or None.
TaskRefs == {"UPID:pve1:0001:qmstart", "UPID:pve2:0002:vzdump"}
StrValue(s) == [kind |-> "str", data |-> s]
DictValue(s) == [kind |-> "dict", data |-> s]
NoneValue == [kind |-> "None", data |-> ""]
PostAnswers == {StrValue(t) : t \in TaskRefs} \cup {DictValue(t) : t \in TaskRefs}

NoResult ==
    [via |-> "", resource |-> "", keys |-> {}, success |-> FALSE, message |-> "", data |-> <<>>,
     task_id |-> NoneValue]

\* self._format_response(<list>, resource_type)
FormatList(data, resource) ==
    [via |-> "_format_response", resource |-> resource, keys |-> {}, success |-> FALSE,
     message |-> "", data |-> data, task_id |-> NoneValue]
\* self._format_response({"success": ..., "message": ..., ...}, resource_type)
FormatOutcome(keys, success, message, resource) ==
    [via |-> "_format_response", resource |-> resource, keys |-> keys, success |-> success,
     message |-> message, data |-> <<>>, task_id |-> NoneValue]
\* self._format_response({"success": True, "task_id": ..., "message": ...}, resource_type)
FormatTask(task_id, message, resource) ==
    [FormatOutcome({"success", "task_id", "message"}, TRUE, message, resource)
        EXCEPT !.task_id = task_id]
\* self._handle_error(operation, e)
HandleError(operation) ==
    [via |-> "_handle_error", resource |-> "", keys |-> {}, success |-> FALSE,
     message |-> operation, data |-> <<>>, task_id |-> NoneValue]

\* How the remote API answers one operation:
\*   nodes        : nodes.get() returns the cluster's nodes or raises
\*   perNode      : the answer of each node's listing, in cluster-list order
\*   configRaises : whether qemu(vmid).config.get() raises inside get_templates
\*   read         : the answer of a template operation's first read
\*   writes       : whether the operation's 1st / 2nd mutating call raises
\*   posted       : what the post that starts a remote task returned
\*   task         : what tasks(task_id).status.get() and .log.get() answered
RawItem(j, tpl, content) == [vmid |-> 100 + j, template |-> tpl, content |-> content]
\* a node's listing of n items; f[j] says whether the j-th passes the operation's
\* filter (template == 1 for get_templates, content == "backup" for list_backups)
ItemsOf(op, n, f) ==
    [j \in 1..n |->
        CASE op = "get_templates" -> RawItem(j, IF f[j] THEN 1 ELSE 0, "images")
          [] op = "list_backups" -> RawItem(j, 0, IF f[j] THEN "backup" ELSE "images")
          [] OTHER -> RawItem(j, 0, "")]
ItemLists(op) ==
    UNION {{ItemsOf(op, n, f) :
                f \in [1..n -> IF op \in {"get_templates", "list_backups"}
                               THEN BOOLEAN ELSE {FALSE}]} :
           n \in 0..MaxItems}
NodeListings(op) ==
    [raises : {TRUE}, items : {<<>>}] \cup [raises : {FALSE}, items : ItemLists(op)]

\* the status of a remote task as one read finds it: still running (no exit
\* status yet), or stopped with exit status "OK" or an error text
TaskStatus(raises, status, exitstatus, logRaises) ==
    [raises |-> raises, status |-> status, exitstatus |-> exitstatus, logRaises |-> logRaises]
NoTaskRead == TaskStatus(FALSE, "", None, FALSE)
TaskReads ==
    {TaskStatus(TRUE, "", None, FALSE),
     TaskStatus(FALSE, "running", None, FALSE),
     TaskStatus(FALSE, "stopped", "command failed", FALSE),
     TaskStatus(FALSE, "stopped", "OK", FALSE),
     TaskStatus(FALSE, "stopped", "OK", TRUE)}

DefaultRemote ==
    [nodes |-> "ok", perNode |-> <<>>, configRaises |-> FALSE, read |-> "",
     writes |-> <<FALSE, FALSE>>, posted |-> NoneValue, task |-> NoTaskRead]

Entry(item, node_name, detailed) ==
    [vmid |-> item.vmid, node |-> node_name, detailed |-> detailed]
RemoteCall(call, node_name, arg) == [call |-> call, node |-> node_name, arg |-> arg]
Step(data, log) == [data |-> data, log |-> log, raised |-> FALSE]
Raised(data, log) == [data |-> data, log |-> log, raised |-> TRUE]

\* --- ContainerTools.get_containers ---------------------------------------
\* (mutant of ContainerNode: no try/except around the node's listing)
ContainerNodeUnguarded(r, i) ==
    LET log == <<RemoteCall("lxc.get", NodeName(i), "")>> IN
    IF r.perNode[i].raises THEN Raised(<<>>, log)
    ELSE Step([j \in 1..Len(r.perNode[i].items) |->
                   Entry(r.perNode[i].items[j], NodeName(i), FALSE)], log)

\* one pass of the loop body (lines 72-79): the node's containers, each with the
\* node's name written into it, or nothing when the listing raised
ContainerNode(r, i) ==
    LET log == <<RemoteCall("lxc.get", NodeName(i), "")>> IN
    IF r.perNode[i].raises THEN Step(<<>>, log)
    ELSE Step([j \in 1..Len(r.perNode[i].items) |->
                   Entry(r.perNode[i].items[j], NodeName(i), FALSE)], log)

\* --- TemplateTools.get_templates -----------------------------------------
\* the config.get calls made for the node's templates (one per template)
ConfigCalls(templates, node_name) ==
    [j \in 1..Len(templates) |-> RemoteCall("config.get", node_name, ToString(templates[j].vmid))]

\* one pass of the loop body (lines 57-91)
TemplateNode(r, i) ==
    LET log == <<RemoteCall("qemu.get", NodeName(i), "")>> IN
    IF r.perNode[i].raises THEN Step(<<>>, log)
    ELSE LET node_templates == SelectSeq(r.perNode[i].items, LAMBDA vm : vm.template = 1)
         IN Step([j \in 1..Len(node_templates) |->
                      Entry(node_templates[j], NodeName(i), ~r.configRaises)],
                 log \o ConfigCalls(node_templates, NodeName(i)))

\* --- BackupTools.list_backups --------------------------------------------
\* one pass of the loop body (lines 79-105)
BackupNode(r, i) ==
    LET log == <<RemoteCall("storage.get", NodeName(i), "")>> IN
    IF r.perNode[i].raises THEN Step(<<>>, log)
    ELSE LET kept == SelectSeq(r.perNode[i].items, LAMBDA b : b.content = "backup")
         IN Step([j \in 1..Len(kept) |-> Entry(kept[j], NodeName(i), FALSE)], log)

\* --- TaskTools.get_tasks --------------------------------------------------
\* the inner loop (lines 63-78): append the node's tasks one by one, stopping
\* after the append that brings the list to `limit`
RECURSIVE AppendTasks(_, _, _, _, _)
AppendTasks(tasks, node_tasks, j, node_name, limit) ==
    IF j > Len(node_tasks) THEN tasks
    ELSE LET grown == Append(tasks, Entry(node_tasks[j], node_name, FALSE)) IN
         IF Len(grown) >= limit THEN grown
         ELSE AppendTasks(grown, node_tasks, j + 1, node_name, limit)

\* the outer loop (lines 51-82): there is no try/except inside it
RECURSIVE TasksLoop(_, _, _, _, _)
TasksLoop(r, i, tasks, log, limit) ==
    IF i > Len(r.perNode) THEN Step(tasks, log)
    ELSE LET log1 == Append(log, RemoteCall("tasks.get", NodeName(i), "")) IN
         IF r.perNode[i].raises THEN Raised(tasks, log1)
         ELSE LET grown == AppendTasks(tasks, r.perNode[i].items, 1, NodeName(i), limit) IN
              IF Len(grown) >= limit THEN Step(grown, log1)
              ELSE TasksLoop(r, i + 1, grown, log1, limit)

\* --- the loop over the nodes, shared by the three guarded listings --------
NodePass(op, r, i) ==
    CASE op = "get_containers" -> ContainerNode(r, i)
      [] op = "get_templates" -> TemplateNode(r, i)
      [] OTHER -> BackupNode(r, i)

\* (mutant of NodesLoop: each node's sublist is put in front of the earlier ones)
RECURSIVE NodesLoopPrepending(_, _, _, _, _)
NodesLoopPrepending(op, r, i, data, log) ==
    IF i > Len(r.perNode) THEN Step(data, log)
    ELSE LET pass == NodePass(op, r, i) IN
         IF pass.raised THEN Raised(data, log \o pass.log)
         ELSE NodesLoopPrepending(op, r, i + 1, pass.data \o data, log \o pass.log)
RECURSIVE NodesLoop(_, _, _, _, _)
NodesLoop(op, r, i, data, log) ==
    IF i > Len(r.perNode) THEN Step(data, log)
    ELSE LET pass == NodePass(op, r, i) IN
         IF pass.raised THEN Raised(data, log \o pass.log)
         ELSE NodesLoop(op, r, i + 1, data \o pass.data, log \o pass.log)

ResourceType(op) ==
    CASE op = "get_containers" -> "container_list"
      [] op = "get_templates" -> "vm_templates"
      [] op = "list_backups" -> "backups"
      [] OTHER -> "tasks"
OperationText(op) ==
    CASE op = "get_containers" -> "get containers"
      [] op = "get_templates" -> "get templates"
      [] op = "list_backups" -> "list backups"
      [] OTHER -> "get tasks"

\* get_containers / get_templates / list_backups: nodes.get(), the loop, and
\* _format_response; any exception outside the inner try goes to _handle_error
ClusterListing(op, r) ==
    LET first == <<RemoteCall("nodes.get", "", "")>> IN
    IF r.nodes = "raise" THEN [result |-> HandleError(OperationText(op)), log |-> first]
    ELSE LET loop == NodesLoop(op, r, 1, <<>>, first) IN
         IF loop.raised THEN [result |-> HandleError(OperationText(op)), log |-> loop.log]
         ELSE [result |-> FormatList(loop.data, ResourceType(op)), log |-> loop.log]

\* get_tasks(limit, vmid, node): with a node given nodes.get() is not called
get_tasks(limit, node, r) ==
    LET first == IF node # "" THEN <<>> ELSE <<RemoteCall("nodes.get", "", "")>> IN
    IF node = "" /\ r.nodes = "raise"
    THEN [result |-> HandleError("get tasks"), log |-> first]
    ELSE LET loop == TasksLoop(r, 1, <<>>, first, limit) IN
         IF loop.raised THEN [result |-> HandleError("get tasks"), log |-> loop.log]
         ELSE [result |-> FormatList(loop.data, "tasks"), log |-> loop.log]

(***************************************************************************)
(* TemplateTools: create_template, update_template, delete_template.       *)
(* r.read is what the first read returned: "raise", or the value of the    *)
(* field the code tests ("stopped" / "running" / None for status;          *)
(* "1" / "0" / None for template).                                         *)
(***************************************************************************)
Done(result, log) == [result |-> result, log |-> log]

\* (mutant of create_template: the status test is left out)
create_template_unchecked(node, name, description, r) ==
    LET read == <<RemoteCall("status.current.get", node, "")>>
        update == IF name \/ description
                  THEN <<RemoteCall("config.put", node, "name/description")>> ELSE <<>>
        convert == <<RemoteCall("config.put", node, "template")>>
    IN
    IF r.read = "raise" THEN Done(HandleError("create template"), read)
    ELSE IF update # <<>> /\ r.writes[1]
    THEN Done(HandleError("create template"), read \o update)
    ELSE IF r.writes[IF update # <<>> THEN 2 ELSE 1]
    THEN Done(HandleError("create template"), read \o update \o convert)
    ELSE Done(FormatOutcome({"success", "message"}, TRUE,
                            "successfully converted to template", "template_operation"),
              read \o update \o convert)

\* (mutant of create_template: the conversion is issued before the
\* name/description update)
create_template_convert_first(node, name, description, r) ==
    LET read == <<RemoteCall("status.current.get", node, "")>>
        update == IF name \/ description
                  THEN <<RemoteCall("config.put", node, "name/description")>> ELSE <<>>
        convert == <<RemoteCall("config.put", node, "template")>>
    IN
    IF r.read = "raise" THEN Done(HandleError("create template"), read)
    ELSE IF r.read # "stopped"
    THEN Done(FormatOutcome({"success", "message"}, FALSE,
                            "must be stopped before converting to template",
                            "template_operation"), read)
    ELSE IF r.writes[1]
    THEN Done(HandleError("create template"), read \o convert)
    ELSE IF update # <<>> /\ r.writes[2]
    THEN Done(HandleError("create template"), read \o convert \o update)
    ELSE Done(FormatOutcome({"success", "message"}, TRUE,
                            "successfully converted to template", "template_operation"),
              read \o convert \o update)

create_template(node, name, description, r) ==
    LET read == <<RemoteCall("status.current.get", node, "")>>
        update == IF name \/ description
                  THEN <<RemoteCall("config.put", node, "name/description")>> ELSE <<>>
        convert == <<RemoteCall("config.put", node, "template")>>
    IN
    IF r.read = "raise" THEN Done(HandleError("create template"), read)
    ELSE IF r.read # "stopped"
    THEN Done(FormatOutcome({"success", "message"}, FALSE,
                            "must be stopped before converting to template",
                            "template_operation"), read)
    ELSE IF update # <<>> /\ r.writes[1]
    THEN Done(HandleError("create template"), read \o update)
    ELSE IF r.writes[IF update # <<>> THEN 2 ELSE 1]
    THEN Done(HandleError("create template"), read \o update \o convert)
    ELSE Done(FormatOutcome({"success", "message"}, TRUE,
                            "successfully converted to template", "template_operation"),
              read \o update \o convert)

\* the test both operations make on the configuration they read:
\* vm_config.get('template') != 1
\* (mutant of NotATemplate: the test passes any configuration that has the key)
NotATemplateKeyOnly(read) == read = None
NotATemplate(read) == read # "1"

update_template(node, name, description, cores, memory, r) ==
    LET read == <<RemoteCall("config.get", node, "")>>
        put == <<RemoteCall("config.put", node, "params")>>
    IN
    IF r.read = "raise" THEN Done(HandleError("update template"), read)
    ELSE IF NotATemplate(r.read)
    THEN Done(FormatOutcome({"success", "message"}, FALSE, "is not a template",
                            "template_operation"), read)
    ELSE IF ~(name \/ description \/ cores \/ memory)
    THEN Done(FormatOutcome({"success", "message"}, FALSE, "No update parameters provided",
                            "template_operation"), read)
    ELSE IF r.writes[1] THEN Done(HandleError("update template"), read \o put)
    ELSE Done(FormatOutcome({"success", "message"}, TRUE, "successfully updated",
                            "template_operation"), read \o put)

delete_template(node, r) ==
    LET read == <<RemoteCall("config.get", node, "")>>
        del == <<RemoteCall("delete", node, "")>>
    IN
    IF r.read = "raise" THEN Done(HandleError("delete template"), read)
    ELSE IF NotATemplate(r.read)
    THEN Done(FormatOutcome({"success", "message"}, FALSE, "is not a template",
                            "template_operation"), read)
    ELSE IF r.writes[1] THEN Done(HandleError("delete template"), read \o del)
    ELSE Done(FormatTask(r.posted, "deletion initiated", "template_operation"), read \o del)

(***************************************************************************)
(* The operations that start a remote task and hand its reference back:    *)
(* VMLifecycleTools (vm_lifecycle.py), ContainerTools (container.py),      *)
(* BackupTools (backup.py) and TemplateTools (template.py).                *)
(***************************************************************************)
VmLifecycleOps ==
    {"start_vm", "stop_vm", "reboot_vm", "create_vm_snapshot", "restore_vm_snapshot", "clone_vm"}
ContainerOps ==
    {"start_container", "stop_container", "restart_container", "delete_container",
     "clone_container"}
BackupOps == {"create_backup", "restore_backup"}
AsyncOps == VmLifecycleOps \cup ContainerOps \cup BackupOps \cup {"import_template"}

\* the resource type each of them passes to _format_response
TaskResource(op) ==
    CASE op \in {"start_vm", "stop_vm", "reboot_vm"} -> "vm_operation"
      [] op \in {"create_vm_snapshot", "restore_vm_snapshot"} -> "vm_snapshot"
      [] op = "clone_vm" -> "vm_clone"
      [] op = "clone_container" -> "container_clone"
      [] op \in ContainerOps -> "container_operation"
      [] op = "create_backup" -> "backup_create"
      [] op = "restore_backup" -> "backup_restore"
      [] OTHER -> "template_operation"

\* vm_lifecycle.py: "task_id": result.get("data").  A str has no .get (the
\* AttributeError goes to the except clause); a dict yields its "data" entry.
ResultGetData(result) ==
    IF result.kind = "dict" THEN [raises |-> FALSE, value |-> StrValue(result.data)]
    ELSE [raises |-> TRUE, value |-> NoneValue]
\* container.py / backup.py / template.py: "task_id": result
ResultItself(result) == [raises |-> FALSE, value |-> result]

\* one post, then _format_response with the task id; every exception ends in
\* _handle_error
AsyncOperation(op, node, r) ==
    LET post == <<RemoteCall(op, node, "post")>>
        task_id == IF op \in VmLifecycleOps THEN ResultGetData(r.posted)
                   ELSE ResultItself(r.posted)
    IN
    IF r.writes[1] \/ task_id.raises THEN Done(HandleError(op), post)
    ELSE Done(FormatTask(task_id.value, "initiated", TaskResource(op)), post)

\* ContainerTools.execute_command: exec.post, then ONE read of the task's status
\* right away, then the task log when the exit status read is "OK"
execute_command(node, r) ==
    LET post == <<RemoteCall("exec.post", node, "command")>>
        status == <<RemoteCall("tasks.status.get", node, r.posted.data)>>
        tlog == <<RemoteCall("tasks.log.get", node, r.posted.data)>>
    IN
    IF r.writes[1] THEN Done(HandleError("execute command in container"), post)
    ELSE IF r.task.raises
    THEN Done(HandleError("execute command in container"), post \o status)
    ELSE IF r.task.exitstatus = "OK"
    THEN (IF r.task.logRaises
          THEN Done(HandleError("execute command in container"), post \o status \o tlog)
          ELSE Done(FormatOutcome({"success", "output", "exit_code"}, TRUE, "exit_code 0",
                                  "container_command"), post \o status \o tlog))
    ELSE Done(FormatOutcome({"success", "output", "exit_code"}, FALSE,
                            "exit_code 1: Command execution failed", "container_command"),
              post \o status)

\* (mutant of TemplateTools_clone_template: no try/except around the
\* description update)
TemplateTools_clone_template_unguarded(node, description, target_vmid, r) ==
    LET post == <<RemoteCall("clone.post", node, "")>>
        put == IF description /\ target_vmid
               THEN <<RemoteCall("config.put", node, "description")>> ELSE <<>>
    IN
    IF r.writes[1] THEN Done(HandleError("clone template"), post)
    ELSE IF put # <<>> /\ r.writes[2] THEN Done(HandleError("clone template"), post \o put)
    ELSE Done(FormatTask(r.posted, "clone initiated", "template_clone"), post \o put)

\* TemplateTools.clone_template: the clone post, then (only with a description
\* and a target_vmid) config.put of the description inside its own try/except
TemplateTools_clone_template(node, description, target_vmid, r) ==
    LET post == <<RemoteCall("clone.post", node, "")>>
        put == IF description /\ target_vmid
               THEN <<RemoteCall("config.put", node, "description")>> ELSE <<>>
    IN
    IF r.writes[1] THEN Done(HandleError("clone template"), post)
    ELSE Done(FormatTask(r.posted, "clone initiated", "template_clone"), post \o put)

(***************************************************************************)
(* The remote behaviours and arguments of the model.                       *)
(***************************************************************************)
MaxLimit == 2

ListingRemotes(op, lengths) ==
    {[DefaultRemote EXCEPT !.nodes = "raise"]}
    \cup {[DefaultRemote EXCEPT !.perNode = pn, !.configRaises = c] :
            pn \in UNION {[1..k -> NodeListings(op)] : k \in lengths},
            c \in IF op = "get_templates" THEN BOOLEAN ELSE {FALSE}}

StatusReads == {"raise", "stopped", "running", None}
TemplateReads == {"raise", "1", "0", None}
OperationRemotes(reads) ==
    {[DefaultRemote EXCEPT !.read = rd, !.writes = w] :
        rd \in reads, w \in [1..2 -> BOOLEAN]}
\* exec.post raises or returns the task reference; then the reads of the task
CommandRemotes ==
    {[DefaultRemote EXCEPT !.writes = <<w, FALSE>>, !.posted = StrValue(p), !.task = t] :
        w \in BOOLEAN, p \in TaskRefs, t \in TaskReads}
\* the same for an operation whose post starts a remote task
PostRemotes(reads) ==
    {[r EXCEPT !.posted = p] : r \in OperationRemotes(reads), p \in PostAnswers}

(***************************************************************************)
(* Spec: the simple server serving requests one after the other.           *)
(***************************************************************************)
\* no operation is being run repeatedly, no wait_for_task call is in progress
NoInvocation == [op |-> "none"]
NotWaiting == [pc |-> "idle"]

\* no template has been applied yet
NoRendering == [template |-> "none", part |-> "whole", data |-> <<>>]

Init ==
    /\ request = [tool |-> None, isMap |-> TRUE, arguments |-> NoArguments]
    /\ env = DefaultEnv
    /\ apiCalls = <<>>
    /\ response = NoValue
    /\ server = "ready"
    /\ script = NoScript
    /\ toolCall = NoToolCall
    /\ remote = DefaultRemote
    /\ remoteLog = <<>>
    /\ toolResult = NoResult
    /\ input = <<>>
    /\ lineNo = 0
    /\ printed = <<>>
    /\ once = FALSE
    /\ atEof = FALSE
    /\ rendering = NoRendering
    /\ rendered = <<>>
    /\ invocation = NoInvocation
    /\ outcomes = <<>>
    /\ waiting = NotWaiting

\* One request is read and served: handle_mcp_request runs to its end.
HandleMcpRequest ==
    /\ server = "ready"
    /\ \E req \in Requests : \E e \in Envs(req.tool) :
          LET h == handle_mcp_request(req, e) IN
            /\ request' = req
            /\ env' = e
            /\ apiCalls' = h.calls
            /\ response' = h.value
            /\ server' = IF h.exit THEN "exited" ELSE "returned"
            /\ script' = h.script
    /\ UNCHANGED <<runVars, toolVars, mainVars, renderVars>>

\* The response has been handed to the transport; nothing of the request is kept
\* (the dispatcher holds no state from one request to the next).
AwaitRequest ==
    /\ server = "returned"
    /\ request' = [tool |-> None, isMap |-> TRUE, arguments |-> NoArguments]
    /\ env' = DefaultEnv
    /\ apiCalls' = <<>>
    /\ response' = NoValue
    /\ server' = "ready"
    /\ script' = NoScript
    /\ UNCHANGED <<runVars, toolVars, mainVars, renderVars>>

Next ==
    \/ HandleMcpRequest
    \/ AwaitRequest

Spec == Init /\ [][Next]_vars

(***************************************************************************)
(* SpecTools: the full server's tool operations, one at a time.            *)
(***************************************************************************)
Idle == toolResult.via = ""

Finish(call, r, done) ==
    /\ toolCall' = call
    /\ remote' = r
    /\ remoteLog' = done.log
    /\ toolResult' = done.result
    /\ UNCHANGED <<runVars, simpleVars, mainVars, renderVars>>

GetContainers ==
    /\ Idle
    /\ \E r \in ListingRemotes("get_containers", 0..MaxNodes) :
          Finish([NoToolCall EXCEPT !.op = "get_containers"], r,
                 ClusterListing("get_containers", r))

GetTemplates ==
    /\ Idle
    /\ \E r \in ListingRemotes("get_templates", 0..MaxNodes) :
          Finish([NoToolCall EXCEPT !.op = "get_templates"], r,
                 ClusterListing("get_templates", r))

ListBackups ==
    /\ Idle
    /\ \E r \in ListingRemotes("list_backups", 0..MaxNodes) :
          Finish([NoToolCall EXCEPT !.op = "list_backups"], r,
                 ClusterListing("list_backups", r))

\* get_tasks over the whole cluster (no node given)
GetTasks ==
    /\ Idle
    /\ \E limit \in 0..MaxLimit : \E r \in ListingRemotes("get_tasks", 0..MaxNodes) :
          Finish([NoToolCall EXCEPT !.op = "get_tasks", !.limit = limit], r,
                 get_tasks(limit, "", r))

\* get_tasks for one node: only that node's tasks are asked for
GetTasksOfNode ==
    /\ Idle
    /\ \E limit \in 0..MaxLimit : \E r \in ListingRemotes("get_tasks", {1}) :
          /\ r.nodes = "ok"
          /\ Finish([NoToolCall EXCEPT !.op = "get_tasks", !.limit = limit, !.node = SomeStr],
                    r, get_tasks(limit, SomeStr, r))

CreateTemplate ==
    /\ Idle
    /\ \E name, description \in BOOLEAN : \E r \in OperationRemotes(StatusReads) :
          Finish([NoToolCall EXCEPT !.op = "create_template", !.node = SomeStr,
                                    !.name = name, !.description = description], r,
                 create_template(SomeStr, name, description, r))

UpdateTemplate ==
    /\ Idle
    /\ \E name, description, cores, memory \in BOOLEAN :
          \E r \in OperationRemotes(TemplateReads) :
             Finish([NoToolCall EXCEPT !.op = "update_template", !.node = SomeStr,
                                       !.name = name, !.description = description,
                                       !.cores = cores, !.memory = memory], r,
                    update_template(SomeStr, name, description, cores, memory, r))

DeleteTemplate ==
    /\ Idle
    /\ \E r \in PostRemotes(TemplateReads) :
          Finish([NoToolCall EXCEPT !.op = "delete_template", !.node = SomeStr], r,
                 delete_template(SomeStr, r))

\* start/stop/reboot VM, snapshots, clone VM, the container operations, the backup
\* operations and import_template
StartRemoteTask ==
    /\ Idle
    /\ \E op \in AsyncOps : \E r \in PostRemotes({""}) :
          Finish([NoToolCall EXCEPT !.op = op, !.node = SomeStr], r,
                 AsyncOperation(op, SomeStr, r))

ExecuteCommand ==
    /\ Idle
    /\ \E r \in CommandRemotes :
          Finish([NoToolCall EXCEPT !.op = "execute_command", !.node = SomeStr], r,
                 execute_command(SomeStr, r))

CloneTemplate ==
    /\ Idle
    /\ \E description, target_vmid \in BOOLEAN : \E r \in PostRemotes({""}) :
          Finish([NoToolCall EXCEPT !.op = "clone_template", !.node = SomeStr,
                                    !.description = description,
                                    !.target_vmid = target_vmid], r,
                 TemplateTools_clone_template(SomeStr, description, target_vmid, r))

\* The operation has returned (or raised) to its caller; the tool objects keep
\* nothing of it.
ToolReturn ==
    /\ ~Idle
    /\ toolCall' = NoToolCall
    /\ remote' = DefaultRemote
    /\ remoteLog' = <<>>
    /\ toolResult' = NoResult
    /\ UNCHANGED <<runVars, simpleVars, mainVars, renderVars>>

NextTools ==
    \/ GetContainers
    \/ GetTemplates
    \/ ListBackups
    \/ GetTasks
    \/ GetTasksOfNode
    \/ CreateTemplate
    \/ UpdateTemplate
    \/ DeleteTemplate
    \/ StartRemoteTask
    \/ CloneTemplate
    \/ ExecuteCommand
    \/ ToolReturn

SpecTools == Init /\ [][NextTools]_vars

(***************************************************************************)
(* SpecMain: the interactive loop of server.py main (lines 526-559).  One  *)
(* action is one pass of the `while True` body: a line is read from        *)
(* standard input and dealt with.                                          *)
(***************************************************************************)
MaxLines == 3

\* the requests and environments the loop is run with
MainRequests ==
    {[tool |-> "get_nodes", isMap |-> TRUE, arguments |-> NoArguments],
     [tool |-> "start_vm", isMap |-> TRUE, arguments |-> NoArguments],
     [tool |-> "unknown_op", isMap |-> TRUE, arguments |-> NoArguments]}
MainEnvs == {DefaultEnv, [DefaultEnv EXCEPT !.cfg = "unreadable"],
             [DefaultEnv EXCEPT !.call = "raise"]}

\* A line of standard input: blank, not valid JSON, valid JSON that is not an
\* object, or a request object.
NoRequest == [tool |-> None, isMap |-> TRUE, arguments |-> NoArguments]
Line(kind, req) == [kind |-> kind, req |-> req]
Lines ==
    {Line(k, NoRequest) : k \in {"blank", "malformed", "not_object"}}
    \cup {Line("request", r) : r \in MainRequests}

Printed(n, doc) == [line |-> n, doc |-> doc]

InitMain ==
    /\ request = NoRequest
    /\ env = DefaultEnv
    /\ apiCalls = <<>>
    /\ response = NoValue
    /\ server = "ready"
    /\ script = NoScript
    /\ toolCall = NoToolCall
    /\ remote = DefaultRemote
    /\ remoteLog = <<>>
    /\ toolResult = NoResult
    /\ input \in SeqsUpTo(Lines, MaxLines)
    /\ lineNo = 0
    /\ printed = <<>>
    /\ once \in BOOLEAN
    /\ atEof = FALSE
    /\ rendering = NoRendering
    /\ rendered = <<>>
    /\ invocation = NoInvocation
    /\ outcomes = <<>>
    /\ waiting = NotWaiting

\* the line the read of lines 530-537 is about to return
NextLineIs(kind) ==
    /\ server = "ready"
    /\ lineNo < Len(input)
    /\ input[lineNo + 1].kind = kind

\* `if not line.strip(): continue`
ReadBlankLine ==
    /\ NextLineIs("blank")
    /\ lineNo' = lineNo + 1
    /\ UNCHANGED <<runVars, simpleVars, toolVars, input, printed, once, atEof, renderVars>>

\* json.loads(line) raises JSONDecodeError: the except clause of line 552 prints
\* an error response and the loop goes on (args.once is not looked at there)
ReadMalformedLine ==
    /\ NextLineIs("malformed")
    /\ lineNo' = lineNo + 1
    /\ printed' = Append(printed, Printed(lineNo + 1, ErrorDict("Failed to parse request")))
    /\ UNCHANGED <<runVars, simpleVars, toolVars, input, once, atEof, renderVars>>

\* what handle_mcp_request does with the parsed line: a JSON value that is not
\* an object has no .get (AttributeError, caught at line 208)
HandleLine(line, e) ==
    IF line.kind = "not_object"
    THEN Handled(ErrorDict("Error handling MCP request"), <<>>, FALSE, NoScript)
    ELSE handle_mcp_request(line.req, e)

\* the line parses: handle_mcp_request, print of the response, and the --once
\* test.  SystemExit from load_config leaves the loop and the process before
\* anything is printed.
ReadRequestLine ==
    /\ server = "ready"
    /\ lineNo < Len(input)
    /\ input[lineNo + 1].kind \in {"request", "not_object"}
    /\ \E e \in MainEnvs :
          LET h == HandleLine(input[lineNo + 1], e) IN
            /\ request' = input[lineNo + 1].req
            /\ env' = e
            /\ apiCalls' = h.calls
            /\ response' = h.value
            /\ script' = h.script
            /\ server' = IF h.exit \/ once THEN "exited" ELSE "ready"
            /\ printed' = IF h.exit THEN printed
                           ELSE Append(printed, Printed(lineNo + 1, h.value))
    /\ lineNo' = lineNo + 1
    /\ UNCHANGED <<runVars, toolVars, input, once, atEof, renderVars>>

\* sys.stdin.read(1) returns '' at end-of-file: line is "", `not line.strip()`
\* holds and the loop continues with the next read
ReadEof ==
    /\ server = "ready"
    /\ lineNo = Len(input)
    /\ atEof' = TRUE
    /\ UNCHANGED <<runVars, simpleVars, toolVars, input, lineNo, printed, once, renderVars>>

NextMain ==
    \/ ReadBlankLine
    \/ ReadMalformedLine
    \/ ReadRequestLine
    \/ ReadEof

SpecMain == InitMain /\ [][NextMain]_vars

(***************************************************************************)
(* Properties of the simple server's dispatcher (Spec).                    *)
(***************************************************************************)
Served == server # "ready"

\* A failure result: a dict that carries an error and does not say success
IsFailure(doc) ==
    doc.type = "dict" /\ "error" \in doc.keys /\ ~("success" \in doc.keys /\ doc.success)

\* The envelope of the data model: `success` is present, a success carries no
\* error, a failure carries a message or an error and no data
DataKeys(doc) == doc.keys \ {"success", "error", "message"}
WellFormedEnvelope(doc) ==
    /\ doc.type = "dict"
    /\ "success" \in doc.keys
    /\ IF doc.success THEN "error" \notin doc.keys
       ELSE ("error" \in doc.keys \/ "message" \in doc.keys) /\ DataKeys(doc) = {}

MissingRequired(req) ==
    \E k \in RequiredArgs(req.tool) : req.arguments[k] \in {Absent, None, EmptyStr}

\* C1: a request for a catalog operation whose argument mapping lacks a required
\* argument (absent, null or empty) is answered with a failure result, and no
\* run_proxmox_api call has been made for it.
C1_MissingArgumentNoRemoteCall ==
    (Served /\ request.isMap /\ request.tool \in Catalog /\ MissingRequired(request))
        => (server = "returned" /\ IsFailure(response) /\ apiCalls = <<>>)

C1_Witness ==
    /\ server = "returned"
    /\ request.tool = "start_vm" /\ request.isMap
    /\ request.arguments["node"] = SomeStr /\ request.arguments["vmid"] = EmptyStr
    /\ IsFailure(response) /\ apiCalls = <<>>

\* C2: a request whose operation name is not in the catalog is answered with an
\* envelope that has success = false and error "Unknown tool: <name>", and no
\* run_proxmox_api call has been made for it.
C2_UnknownToolEnvelope ==
    (Served /\ request.tool \notin Catalog)
        => /\ server = "returned"
           /\ apiCalls = <<>>
           /\ "error" \in response.keys /\ response.error = "Unknown tool: " \o request.tool
           /\ "success" \in response.keys /\ ~response.success

\* C3: every result returned is an envelope that carries a success flag and has
\* exactly one of its success / failure branches populated.
C3_EveryResultIsEnvelope == server = "returned" => WellFormedEnvelope(response)

\* C4: whatever the handler, the subprocess or the configuration loading does,
\* handle_mcp_request returns a value to its caller: no exception escapes it and
\* the server process is not terminated while serving a request.
C4_AlwaysReturnsEnvelope ==
    Served => (server = "returned" /\ response.type \in {"dict", "raw"})

\* C5: handle_mcp_request calls run_proxmox_api at most once per request, for the
\* action of the requested operation, and does not call it again after a failure.
C5_AtMostOneCall ==
    /\ Len(apiCalls) <= 1
    /\ \A i \in 1..Len(apiCalls) : apiCalls[i].action = request.tool

C5_Witness ==
    /\ server = "returned"
    /\ request.tool = "start_vm"
    /\ env.call = "raise"
    /\ Len(apiCalls) = 1
    /\ IsFailure(response)

\* C8: when get_vms is dispatched through the simple server and the VM listing of
\* one node fails, the caller receives the aggregated result of the other nodes
\* and no error response.
C8_GetVmsNodeFailureNotEscalated ==
    (/\ server = "returned" /\ request.tool = "get_vms"
     /\ env.cfg = "ok" /\ env.proc = "ok" /\ env.call = "ok"
     /\ \E i \in 1..Len(env.perNode) : env.perNode[i].raises)
        => /\ "error" \notin response.keys
           /\ "vms" \in response.keys
           /\ response.payload = CollectVms(env.perNode, 1)

(***************************************************************************)
(* Properties of the full server's tool operations (SpecTools).            *)
(***************************************************************************)
GuardedListings == {"get_containers", "get_templates", "list_backups"}

\* what a node's listing contributes to the operation's list
PassesFilter(op, item) ==
    CASE op = "get_templates" -> item.template = 1
      [] op = "list_backups" -> item.content = "backup"
      [] OTHER -> TRUE
Contribution(op, r, i) ==
    LET kept == SelectSeq(r.perNode[i].items, LAMBDA item : PassesFilter(op, item))
    IN [j \in 1..Len(kept) |-> [vmid |-> kept[j].vmid, node |-> NodeName(i)]]

\* the contributions of the first k nodes, those whose listing raised left out
RECURSIVE ContributionsOfAnswering(_, _, _)
ContributionsOfAnswering(op, r, k) ==
    IF k = 0 THEN <<>>
    ELSE ContributionsOfAnswering(op, r, k - 1)
         \o (IF r.perNode[k].raises THEN <<>> ELSE Contribution(op, r, k))

WhoseEntries(data) == [j \in 1..Len(data) |-> [vmid |-> data[j].vmid, node |-> data[j].node]]

\* C6: in get_containers, get_templates and list_backups, whichever nodes' listing
\* raises, the operation ends in a formatted (successful) result whose list is
\* exactly the entries of the nodes whose listing answered.
C6_GuardedListingsSkipFailedNodes ==
    (toolCall.op \in GuardedListings /\ remote.nodes = "ok")
        => /\ toolResult.via = "_format_response"
           /\ WhoseEntries(toolResult.data)
                = ContributionsOfAnswering(toolCall.op, remote, Len(remote.perNode))

C6_Witness ==
    /\ toolCall.op = "get_containers"
    /\ Len(remote.perNode) = 3
    /\ ~remote.perNode[1].raises /\ remote.perNode[2].raises /\ ~remote.perNode[3].raises
    /\ Len(remote.perNode[1].items) = 1 /\ Len(remote.perNode[3].items) = 2
    /\ toolResult.via = "_format_response"
    /\ [j \in 1..Len(toolResult.data) |-> toolResult.data[j].node]
          = <<NodeName(1), NodeName(3), NodeName(3)>>

\* C7: in get_tasks over the whole cluster, when a node's tasks call raises, that
\* node is skipped and the operation still ends in a formatted (successful)
\* result.
C7_GetTasksSkipsFailedNode ==
    (/\ toolCall.op = "get_tasks" /\ toolCall.node = "" /\ remote.nodes = "ok"
     /\ \E i \in 1..Len(remoteLog) :
           /\ remoteLog[i].call = "tasks.get"
           /\ \E k \in 1..Len(remote.perNode) :
                 remoteLog[i].node = NodeName(k) /\ remote.perNode[k].raises)
        => toolResult.via = "_format_response"

Mutating(c) == c.call \in {"config.put", "delete"}
NoMutation == \A i \in 1..Len(remoteLog) : ~Mutating(remoteLog[i])
FailureEnvelope(result) ==
    /\ result.via = "_format_response"
    /\ "success" \in result.keys /\ ~result.success

\* C9: create_template issues no config.put for a VM whose status, as read at the
\* start of the operation, is not 'stopped'; it returns a success = false envelope.
C9_CreateTemplateNeedsStoppedVm ==
    (toolCall.op = "create_template" /\ remote.read \notin {"raise", "stopped"})
        => NoMutation /\ FailureEnvelope(toolResult)

C9_Witness ==
    /\ toolCall.op = "create_template" /\ toolCall.name
    /\ remote.read = "running"
    /\ remoteLog = <<RemoteCall("status.current.get", SomeStr, "")>>
    /\ FailureEnvelope(toolResult)

\* C10: update_template and delete_template issue no config.put / delete for a
\* target whose configuration does not have template == 1; they return the
\* success = false envelope "VM <vmid> is not a template".
C10_TemplateOpsNeedTemplate ==
    (toolCall.op \in {"update_template", "delete_template"} /\ remote.read \notin {"raise", "1"})
        => /\ NoMutation
           /\ FailureEnvelope(toolResult)
           /\ toolResult.message = "is not a template"

C10_Witness ==
    /\ toolCall.op = "update_template" /\ toolCall.name
    /\ remote.read = "0"
    /\ remoteLog = <<RemoteCall("config.get", SomeStr, "")>>
    /\ FailureEnvelope(toolResult)
    /\ toolResult.message = "is not a template"

(***************************************************************************)
(* Properties of the operations that start a remote task (SpecTools).      *)
(***************************************************************************)
TaskOps == AsyncOps \cup {"clone_template", "delete_template"}

\* the operation's post was issued and returned the task reference as a str
PostReturnedStr ==
    /\ toolCall.op \in TaskOps
    /\ ~Idle
    /\ toolCall.op = "delete_template" => remote.read = "1"
    /\ ~remote.writes[1]
    /\ remote.posted.kind = "str"

\* C11: every asynchronous operation whose remote call returned the task
\* reference string r returns a success envelope whose task_id is r unchanged.
C11_TaskIdPassedThrough ==
    PostReturnedStr =>
        /\ toolResult.via = "_format_response"
        /\ toolResult.success
        /\ toolResult.task_id = remote.posted

\* C12: execute_command reports success / exit code only from a task status
\* observed after the task finished: a task that is still running when its
\* status is read is never reported as a failed command.
C12_RunningTaskNotReportedFailed ==
    (/\ toolCall.op = "execute_command"
     /\ ~remote.writes[1]
     /\ ~remote.task.raises
     /\ remote.task.status = "running")
    => ~(toolResult.via = "_format_response" /\ ~toolResult.success)

(***************************************************************************)
(* Properties of wait_for_task and of the optional arguments' defaults     *)
(* (Spec).                                                                 *)
(***************************************************************************)
\* a wait_for_task request whose subprocess ran
WaitRan == Served /\ request.tool = "wait_for_task" /\ script.ran

\* the poll that finds the task stopped, or raises, is poll number running + 1
StoppedObserved ==
    env.task.then \in {"stopped_ok", "stopped_error"} /\ Len(script.polls) > env.task.running
PollRaised == env.task.then = "poll_raise" /\ Len(script.polls) > env.task.running

C25_EndsAtFirstStoppedPoll ==
    WaitRan =>
        /\ env.task.then # "never" => Len(script.polls) <= env.task.running + 1
        /\ StoppedObserved =>
              response = ResultDict({"success", "status"}, env.task.then = "stopped_ok", <<>>)
        /\ PollRaised => response = ErrorDict("Error checking task status")
        /\ (~StoppedObserved /\ ~PollRaised) =>
              /\ response = TimeoutError(script.timeout)
              /\ IF script.polls = <<>> THEN NumOf(script.timeout) <= 0
                 ELSE script.polls[Len(script.polls)] + env.task.takes + Interval
                        >= NumOf(script.timeout)
\* the task is found running twice and stopped with an error at the third poll
C25_Witness ==
    /\ WaitRan
    /\ env.task.running = 2
    /\ env.task.then = "stopped_error"
    /\ Len(script.polls) = 3
    /\ response = ResultDict({"success", "status"}, FALSE, <<>>)

\* the argument as supplied, or its declared default when the request has none
SuppliedOr(arguments, key, default) ==
    IF arguments[key] = Absent THEN default ELSE arguments[key]

\* C14: the declared defaults reach the remote side.  clone_template through the
\* simple server posts the clone with full=1 when full_clone is absent (default
\* true) or true and with full=0 when it is false; wait_for_task waits with
\* timeout 300 when timeout is absent and with the supplied timeout otherwise.
C14_DefaultsReachRemoteCall ==
    /\ (Served /\ request.tool = "clone_template" /\ script.ran
         /\ request.arguments["full_clone"] # None)
        => script.full = (IF SuppliedOr(request.arguments, "full_clone", PyTrue) = PyTrue
                          THEN IntOne ELSE IntZero)
    /\ (WaitRan /\ request.arguments["timeout"] # None)
        => script.timeout = SuppliedOr(request.arguments, "timeout", Int300)

C14_Witness ==
    /\ server = "returned"
    /\ request.tool = "clone_template"
    /\ request.arguments["full_clone"] = Absent
    /\ script.ran
    /\ script.full = IntOne
    /\ "success" \in response.keys

(***************************************************************************)
(* Properties of get_tasks' limit (SpecTools).                             *)
(***************************************************************************)
\* C15: get_tasks returns at most `limit` tasks, for every limit >= 0, every set
\* of nodes and every per-node task list (lists longer than limit included).
C15_GetTasksAtMostLimit ==
    (toolCall.op = "get_tasks" /\ toolResult.via = "_format_response")
    => Len(toolResult.data) <= toolCall.limit

(***************************************************************************)
(* Properties of the interactive loop (SpecMain).                          *)
(***************************************************************************)
\* the numbers of the non-blank lines among the first n lines of input, in order
RECURSIVE NonBlankUpTo(_)
NonBlankUpTo(n) ==
    IF n = 0 THEN <<>>
    ELSE NonBlankUpTo(n - 1) \o (IF input[n].kind = "blank" THEN <<>> ELSE <<n>>)

\* C16: in interactive mode (no --once) exactly one response line is printed for
\* every non-blank line read, in input order and before the next line is read; a
\* line that is not valid JSON gets exactly one error response, and the server
\* goes on serving.
C16_OneResponsePerLine ==
    ~once =>
        /\ [i \in 1..Len(printed) |-> printed[i].line] = NonBlankUpTo(lineNo)
        /\ \A i \in 1..Len(printed) :
              input[printed[i].line].kind = "malformed" => IsFailure(printed[i].doc)
        /\ server = "ready"

\* C26: with --once the server exits after printing the response to the first
\* non-blank line, whether that line was a request or malformed JSON: once a
\* non-blank line has been read, exactly one response has been printed, the
\* server has exited, and no second non-blank line is ever read.
C26_OnceAnswersOneLine ==
    (once /\ NonBlankUpTo(lineNo) # <<>>) =>
        /\ Len(NonBlankUpTo(lineNo)) = 1
        /\ Len(printed) = 1
        /\ server = "exited"

\* The loop runs on by itself: whenever it can take a step that changes
\* something, it eventually takes one.
FairSpecMain == SpecMain /\ WF_vars(NextMain)

\* C28: when standard input reaches end-of-file the interactive loop stops: once
\* a read has returned end-of-file the server eventually exits.
C28_EofEndsTheLoop == atEof ~> (server = "exited")

(***************************************************************************)
(* SpecRender: the output templates (formatting/templates.py).  A template *)
(* builds a list of lines and returns "\n".join of it; the model keeps the *)
(* list.  ProxmoxTheme's icons are named, not drawn.                       *)
(***************************************************************************)
\* ProxmoxTheme.SECTIONS[name]
Section(name) == "<" \o name \o ">"

\* str.startswith
StartsWith(s, prefix) == Len(s) >= Len(prefix) /\ SubSeq(s, 1, Len(prefix)) = prefix

\* The result envelopes handed to the operation templates: each of the four
\* keys may be missing from the dict.
Envelopes == [success : {Absent, PyTrue, PyFalse, IntZero},
              message : {Absent, "VM 100 started"},
              task_id : {Absent, "UPID:pve1:0001"},
              error : {Absent, "permission denied"}]

\* template_operation and template_clone: the detail line is appended only
\* when its key is in the dict
template_operation(operation) ==
    IF ~Not(GetDefault(operation, "success", PyFalse))
    THEN <<Section("success") \o " " \o GetDefault(operation, "message", "Operation completed successfully")>>
         \o (IF operation["task_id"] # Absent
             THEN <<"", "Task ID: " \o GetDefault(operation, "task_id", "N/A")>>
             ELSE <<>>)
    ELSE <<Section("error") \o " " \o GetDefault(operation, "message", "Operation failed")>>
         \o (IF operation["error"] # Absent
             THEN <<"", "Error: " \o GetDefault(operation, "error", "Unknown error")>>
             ELSE <<>>)

template_clone(clone_result) ==
    IF ~Not(GetDefault(clone_result, "success", PyFalse))
    THEN <<Section("success") \o " " \o GetDefault(clone_result, "message", "Template cloned successfully")>>
         \o (IF clone_result["task_id"] # Absent
             THEN <<"", "Task ID: " \o GetDefault(clone_result, "task_id", "N/A")>>
             ELSE <<>>)
    ELSE <<Section("error") \o " " \o GetDefault(clone_result, "message", "Template clone failed")>>
         \o (IF clone_result["error"] # Absent
             THEN <<"", "Error: " \o GetDefault(clone_result, "error", "Unknown error")>>
             ELSE <<>>)

\* container_operation and container_clone: the detail line is always there
container_operation(operation) ==
    IF ~Not(GetDefault(operation, "success", PyFalse))
    THEN <<Section("success") \o " " \o GetDefault(operation, "message", "Operation completed successfully"),
           "",
           "Task ID: " \o GetDefault(operation, "task_id", "N/A")>>
    ELSE <<Section("error") \o " " \o GetDefault(operation, "message", "Operation failed"),
           "",
           "Error: " \o GetDefault(operation, "error", "Unknown error")>>

container_clone(clone_result) ==
    IF ~Not(GetDefault(clone_result, "success", PyFalse))
    THEN <<Section("success") \o " " \o GetDefault(clone_result, "message", "Container cloned successfully"),
           "",
           "Task ID: " \o GetDefault(clone_result, "task_id", "N/A")>>
    ELSE <<Section("error") \o " " \o GetDefault(clone_result, "message", "Container clone failed"),
           "",
           "Error: " \o GetDefault(clone_result, "error", "Unknown error")>>

OperationTemplates == {"template_operation", "template_clone",
                       "container_operation", "container_clone"}

\* One operation template is applied to one envelope.
RenderOperation ==
    /\ rendering = NoRendering
    /\ \E t \in OperationTemplates : \E operation \in Envelopes :
        /\ rendering' = [template |-> t, part |-> "whole", data |-> operation]
        /\ rendered' = CASE t = "template_operation" -> template_operation(operation)
                         [] t = "template_clone" -> template_clone(operation)
                         [] t = "container_operation" -> container_operation(operation)
                         [] t = "container_clone" -> container_clone(operation)
    /\ UNCHANGED <<runVars, simpleVars, toolVars, mainVars>>

\* the lines of the output that start with the given text
LinesWith(prefix) == {i \in 1..Len(rendered) : StartsWith(rendered[i], prefix)}

\* C17: every operation-result template (template_operation, template_clone,
\* container_operation, container_clone) opens with the success line exactly
\* when the envelope's success flag is true and with the error line otherwise;
\* a success output has the task id line exactly when the envelope has a task
\* id and no error detail line; a failure output has the error detail line
\* exactly when the envelope has an error detail and no task id line.
C17_DetailLineOnlyWhenPresent ==
    rendering.template \in OperationTemplates =>
        LET ok == ~Not(GetDefault(rendering.data, "success", PyFalse))
            taskLines == LinesWith("Task ID: ")
            errorLines == LinesWith("Error: ")
        IN /\ Len(rendered) >= 1
           /\ ok => /\ LinesWith(Section("success")) = {1}
                    /\ LinesWith(Section("error")) = {}
                    /\ errorLines = {}
                    /\ (taskLines # {}) <=> (rendering.data["task_id"] # Absent)
           /\ ~ok => /\ LinesWith(Section("error")) = {1}
                     /\ LinesWith(Section("success")) = {}
                     /\ taskLines = {}
                     /\ (errorLines # {}) <=> (rendering.data["error"] # Absent)

(***************************************************************************)
(* Used/total pairs.  A usage dict holds the keys in `has`; a key it does  *)
(* not hold reads as 0 (memory.get("used", 0)).  Numbers are whole bytes.  *)
(***************************************************************************)
MaxBytes == 3
Usage(has, used, total) == [has |-> has, used |-> used, total |-> total]
EmptyUsage == Usage({}, 0, 0)
UsageDicts ==
    {EmptyUsage}
      \cup {Usage({"used"}, u, 0) : u \in 0..MaxBytes}
      \cup {Usage({"total"}, 0, t) : t \in (0 - 1)..MaxBytes}
      \cup {Usage({"used", "total"}, u, t) : u \in 0..MaxBytes, t \in (0 - 1)..MaxBytes}

\* (mutant of Percent: the quotient is cut after the first decimal, not rounded)
PercentTruncated(used, total) == IF total > 0 THEN (1000 * used) \div total ELSE 0
\* `(used / total * 100) if total > 0 else 0`, kept in tenths of a percent as
\* `{percent:.1f}` rounds it.  No pair within the bounds lies halfway between
\* two tenths (that needs a total divisible by 16), so nearest is unambiguous.
Percent(used, total) == IF total > 0 THEN (2000 * used + total) \div (2 * total) ELSE 0

\* f"{percent:.1f}" of a number of tenths
OneDecimal(tenths) == ToString(tenths \div 10) \o "." \o ToString(tenths % 10)

\* ProxmoxFormatters.format_bytes(n): the call is kept as written
format_bytes(n) == "format_bytes(" \o ToString(n) \o ")"

\* The line every template writes for a pair (the bullet is written "*"):
\*   f"  * {label}: {format_bytes(used)} / {format_bytes(total)} ({percent:.1f}%)"
UsageLine(label, used, total, tenths) ==
    "  * " \o label \o ": " \o format_bytes(used) \o " / " \o format_bytes(total)
      \o " (" \o OneDecimal(tenths) \o "%)"

\* the line of one usage dict: both numbers are read with default 0
UsageOf(label, d) ==
    LET used == IF "used" \in d.has THEN d.used ELSE 0
        total == IF "total" \in d.has THEN d.total ELSE 0
    IN UsageLine(label, used, total, Percent(used, total))

\* The templates that render a pair, and the pair lines each of them writes:
\* node_list and node_status write the memory line and, `if disk:`, the disk
\* line; storage_list reads the pair from the store itself.
UsageTemplates == {"node_list", "node_status", "vm_list", "storage_list",
                   "container_list", "container_status", "container_performance"}
UsageLines(t, data) ==
    CASE t \in {"node_list", "node_status"} ->
            <<UsageOf("Memory", data.memory)>>
              \o (IF data.disk.has # {} THEN <<UsageOf("Disk", data.disk)>> ELSE <<>>)
      [] t = "storage_list" -> <<UsageOf("Usage", data.memory)>>
      [] OTHER -> <<UsageOf("Memory", data.memory)>>

\* One template renders the pairs of one record; `rendered` holds the pair lines.
RenderUsage ==
    /\ rendering = NoRendering
    /\ \E t \in UsageTemplates : \E memory \in UsageDicts : \E disk \in UsageDicts :
        /\ t \notin {"node_list", "node_status"} => disk = EmptyUsage
        /\ rendering' = [template |-> t, part |-> "pairs", data |-> [memory |-> memory, disk |-> disk]]
        /\ rendered' = UsageLines(t, [memory |-> memory, disk |-> disk])
    /\ UNCHANGED <<runVars, simpleVars, toolVars, mainVars>>

\* the tenths of a percent nearest to used/total*100, and 0 when total <= 0
NearestTenths(used, total) ==
    IF total > 0
    THEN {n \in 0..(1000 * (MaxBytes + 1)) :
            2 * (IF n * total >= 1000 * used THEN n * total - 1000 * used
                 ELSE 1000 * used - n * total) <= total}
    ELSE {0}
\* the pair line a usage dict must give
ExpectedLines(label, d) ==
    LET used == IF "used" \in d.has THEN d.used ELSE 0
        total == IF "total" \in d.has THEN d.total ELSE 0
    IN {UsageLine(label, used, total, n) : n \in NearestTenths(used, total)}

\* C19: in every template that renders a used/total pair (node, VM and
\* container memory, node disk, storage usage, container performance) the
\* percentage written is used/total*100 rounded to one decimal place when
\* total > 0 and is 0.0 when total is zero or negative.
C19_PercentOneDecimalOrZero ==
    rendering.template \in UsageTemplates /\ rendering.part = "pairs" =>
        /\ Len(rendered) >= 1
        /\ rendered[1] \in ExpectedLines(IF rendering.template = "storage_list" THEN "Usage" ELSE "Memory",
                                         rendering.data.memory)
        /\ Len(rendered) >= 2 => rendered[2] \in ExpectedLines("Disk", rendering.data.disk)
\* a node whose memory is 2 of 3 bytes (66.7%) and whose disk total is negative
C19_Witness ==
    /\ rendering.template = "node_list"
    /\ rendering.part = "pairs"
    /\ rendering.data = [memory |-> Usage({"used", "total"}, 2, 3),
                         disk |-> Usage({"used", "total"}, 1, 0 - 1)]
    /\ rendered = <<"  * Memory: format_bytes(2) / format_bytes(3) (66.7%)",
                    "  * Disk: format_bytes(1) / format_bytes(-1) (0.0%)">>

(***************************************************************************)
(* The list templates with a "no items" line: container_list,              *)
(* container_templates, vm_templates.  A record's optional keys may be     *)
(* Absent; a record's disks are the (id, value) pairs of its dict in order.*)
(***************************************************************************)
\* ProxmoxTheme.RESOURCES[name]
Resource(name) == "<" \o name \o ">"

\* `volid.split('/')[-1] if '/' in volid else volid`, scanning back from index i
RECURSIVE LastSegment(_, _)
LastSegment(volid, i) ==
    IF i = 0 THEN volid
    ELSE IF SubSeq(volid, i, i) = "/" THEN SubSeq(volid, i + 1, Len(volid))
    ELSE LastSegment(volid, i - 1)

ListTemplates == {"container_list", "container_templates", "vm_templates"}
Records(t) ==
    CASE t = "container_list" ->
            [name : {"web"}, vmid : {"101"}, status : {"running", "stopped"}, node : {"pve1"},
             cpus : {Absent, "2"}, memory : {EmptyUsage, Usage({"used", "total"}, 1, 2)}]
      [] t = "container_templates" ->
            [volid : {Absent, "local:vztmpl/ubuntu.tar.gz", "ubuntu.tar.gz"},
             size : {Absent, Int15}, format : {Absent}]
      [] t = "vm_templates" ->
            [name : {Absent, "ubuntu-tpl"}, vmid : {Absent, "9000"}, node : {"pve1"},
             description : {Absent}, cores : {"2"}, memory : {"2048"}, os_type : {Absent},
             disks : {<<>>, <<[id |-> "scsi0", value |-> "local-lvm:vm-9000-disk-0"]>>,
                      <<[id |-> "scsi0", value |-> "local-lvm:vm-9000-disk-0"],
                        [id |-> "ide2", value |-> "none,media=cdrom"]>>}]

\* The lines one record adds after the separating empty line (the list passed
\* to result.extend without its first element, and for vm_templates the disk
\* lines appended after it).
Block(t, r) ==
    CASE t = "container_list" ->
            <<Resource("container") \o " " \o r["name"] \o " (ID: " \o r["vmid"] \o ")",
              "  * Status: " \o (IF r["status"] = "running" THEN "RUNNING" ELSE "STOPPED"),
              "  * Node: " \o r["node"],
              "  * CPU Cores: " \o GetDefault(r, "cpus", "N/A"),
              UsageOf("Memory", r["memory"])>>
      [] t = "container_templates" ->
            LET volid == GetDefault(r, "volid", "Unknown") IN
            <<Resource("template") \o " " \o LastSegment(volid, Len(volid)),
              "  * Volume ID: " \o volid,
              "  * Size: " \o format_bytes(NumOf(GetDefault(r, "size", IntZero))),
              "  * Format: " \o GetDefault(r, "format", "N/A")>>
      [] t = "vm_templates" ->
            <<Resource("template") \o " "
                \o GetDefault(r, "name", "vm-" \o GetDefault(r, "vmid", "Unknown"))
                \o " (ID: " \o GetDefault(r, "vmid", "Unknown") \o ")",
              "  * Node: " \o GetDefault(r, "node", "N/A"),
              "  * Description: " \o GetDefault(r, "description", "No description"),
              "  * CPU Cores: " \o GetDefault(r, "cores", "N/A"),
              "  * Memory: " \o GetDefault(r, "memory", "N/A") \o " MB",
              "  * OS Type: " \o GetDefault(r, "os_type", "N/A")>>
              \o (IF r["disks"] # <<>>
                  THEN <<"  * Disks:">>
                         \o [i \in 1..Len(r["disks"]) |->
                               "    - " \o r["disks"][i].id \o ": " \o r["disks"][i].value]
                  ELSE <<>>)

\* (mutant of Blocks: the blocks follow each other with no empty line between)
RECURSIVE BlocksUnseparated(_, _, _)
BlocksUnseparated(result, items, t) ==
    IF items = <<>> THEN result
    ELSE BlocksUnseparated(result \o Block(t, Head(items)), Tail(items), t)
\* the `for` loop: result.extend(["", ...]) for each record in turn
RECURSIVE Blocks(_, _, _)
Blocks(result, items, t) ==
    IF items = <<>> THEN result
    ELSE Blocks(result \o <<"">> \o Block(t, Head(items)), Tail(items), t)

container_list(containers) ==
    IF containers = <<>> THEN <<Resource("container") \o " No containers found">>
    ELSE Blocks(<<Resource("container") \o " Containers">>, containers, "container_list")
container_templates(templates) ==
    IF templates = <<>> THEN <<Resource("template") \o " No container templates found">>
    ELSE Blocks(<<Resource("template") \o " Container Templates">>, templates,
                "container_templates")
vm_templates(templates) ==
    IF templates = <<>> THEN <<Resource("template") \o " No VM templates found">>
    ELSE Blocks(<<Resource("template") \o " VM Templates">>, templates, "vm_templates")

\* One list template is applied to a list of at most MaxItems records.
RenderList ==
    /\ rendering = NoRendering
    /\ \E t \in ListTemplates : \E items \in SeqsUpTo(Records(t), MaxItems) :
        /\ rendering' = [template |-> t, part |-> "whole", data |-> items]
        /\ rendered' = CASE t = "container_list" -> container_list(items)
                         [] t = "container_templates" -> container_templates(items)
                         [] t = "vm_templates" -> vm_templates(items)
    /\ UNCHANGED <<runVars, simpleVars, toolVars, mainVars>>

\* the first lines of the blocks: the lines after the header that are neither
\* empty nor indented
TitleLines == {i \in 2..Len(rendered) : rendered[i] # "" /\ ~StartsWith(rendered[i], " ")}
EmptyLines == {i \in 1..Len(rendered) : rendered[i] = ""}

\* C18: container_list, container_templates and vm_templates return for an
\* empty list exactly their one "No ... found" line, and for a non-empty list
\* their header line followed by one block per record, each block preceded by
\* exactly one empty line (and no empty line anywhere else).
C18_SentinelOrSeparatedBlocks ==
    rendering.template \in ListTemplates /\ rendering.part = "whole" =>
        LET t == rendering.template
            what == CASE t = "container_list" -> "containers"
                      [] t = "container_templates" -> "container templates"
                      [] t = "vm_templates" -> "VM templates"
            header == CASE t = "container_list" -> "Containers"
                        [] t = "container_templates" -> "Container Templates"
                        [] t = "vm_templates" -> "VM Templates"
            icon == IF t = "container_list" THEN Resource("container") ELSE Resource("template")
        IN IF rendering.data = <<>>
           THEN rendered = <<icon \o " No " \o what \o " found">>
           ELSE /\ rendered[1] = icon \o " " \o header
                /\ Cardinality(TitleLines) = Len(rendering.data)
                /\ \A i \in TitleLines : i >= 3 /\ rendered[i - 1] = "" /\ rendered[i - 2] # ""
                /\ \A i \in EmptyLines : i + 1 \in TitleLines
                /\ rendered[Len(rendered)] # ""
\* two VM templates, the first with disk lines, rendered as two blocks
C18_Witness ==
    /\ rendering.template = "vm_templates"
    /\ rendering.part = "whole"
    /\ Len(rendering.data) = 2
    /\ rendering.data[1]["disks"] # <<>>
    /\ Cardinality(TitleLines) = 2
    /\ Cardinality(EmptyLines) = 2
\* an empty container list rendered as the one sentinel line
C18_WitnessEmpty ==
    /\ rendering.template = "container_list"
    /\ rendering.part = "whole"
    /\ rendering.data = <<>>
    /\ rendered = <<"<container> No containers found">>

(***************************************************************************)
(* Projections of a configuration blob.  A config is the set of its keys   *)
(* (the values are copied unchanged); a projection is the set of keys it   *)
(* puts in each group it builds.                                           *)
(***************************************************************************)
ConfigKeys == {"hostname", "cores", "net0", "net1", "netif", "mp0", "rootfs",
               "scsi0", "scsihw", "ide2", "sata0"}
Groups(built, net, storage, disk) ==
    [built |-> built, net |-> net, storage |-> storage, disk |-> disk]

\* container_config: net_interfaces (lines 262-265) and mount_points (273-276)
container_config(config) ==
    Groups({"net", "storage"},
           {key \in config : StartsWith(key, "net") /\ key # "netif"},
           {key \in config : StartsWith(key, "mp") \/ key = "rootfs"},
           {})
\* get_template_details: disks (lines 358-362) and networks (365-369)
TemplateTools_get_template_details(config) ==
    Groups({"net", "disk"},
           {key \in config : StartsWith(key, "net")},
           {},
           {key \in config : StartsWith(key, "scsi") \/ StartsWith(key, "ide")
                               \/ StartsWith(key, "sata")})
\* get_templates: disks (lines 81-85)
TemplateTools_get_templates(config) ==
    Groups({"disk"}, {}, {},
           {key \in config : StartsWith(key, "scsi") \/ StartsWith(key, "ide")
                               \/ StartsWith(key, "sata")})

Projections == {"container_config", "get_template_details", "get_templates"}

\* One projection is applied to one config; `rendered` holds its groups.
ProjectConfig ==
    /\ rendering = NoRendering
    /\ \E t \in Projections : \E config \in SUBSET ConfigKeys :
        /\ rendering' = [template |-> t, part |-> "groups", data |-> config]
        /\ rendered' = CASE t = "container_config" -> container_config(config)
                         [] t = "get_template_details" -> TemplateTools_get_template_details(config)
                         [] t = "get_templates" -> TemplateTools_get_templates(config)
    /\ UNCHANGED <<runVars, simpleVars, toolVars, mainVars>>

\* C20: every projection of a configuration blob (container_config, the
\* networks and disks maps of get_template_details, the disks map of
\* get_templates) puts in its network group exactly the keys with prefix "net"
\* other than "netif", in its storage group exactly the keys with prefix "mp"
\* or equal to "rootfs", and in its disk group exactly the keys with prefix
\* "scsi", "ide" or "sata".
C20_SamePrefixRules ==
    rendering.part = "groups" =>
        /\ "net" \in rendered.built =>
              rendered.net = {key \in rendering.data : StartsWith(key, "net") /\ key # "netif"}
        /\ "storage" \in rendered.built =>
              rendered.storage = {key \in rendering.data : StartsWith(key, "mp") \/ key = "rootfs"}
        /\ "disk" \in rendered.built =>
              rendered.disk = {key \in rendering.data :
                                 \E prefix \in {"scsi", "ide", "sata"} : StartsWith(key, prefix)}

(***************************************************************************)
(* Records built from a raw payload.  Each field of a record is read from  *)
(* one key of the payload with `.get(key, default)`, or with `.get(key)`,  *)
(* whose default is None.  A payload is the set of keys it holds; the      *)
(* value of a key it holds is copied ("raw:" and the key).                 *)
(***************************************************************************)
Field(field, key, default) == [field |-> field, key |-> key, default |-> default]
RecordKinds == {"task", "task_status", "snapshot", "backup", "container_status",
                "performance", "template_details"}
Fields(kind) ==
    CASE kind = "task" ->          \* task.py 64-74
            {Field("upid", "upid", EmptyStr), Field("type", "type", EmptyStr),
             Field("status", "status", EmptyStr), Field("starttime", "starttime", IntZero),
             Field("endtime", "endtime", IntZero), Field("id", "id", EmptyStr),
             Field("user", "user", EmptyStr), Field("vmid", "vmid", EmptyStr)}
      [] kind = "task_status" ->   \* task.py 105-115
            {Field("type", "type", EmptyStr), Field("status", "status", EmptyStr),
             Field("exitstatus", "exitstatus", EmptyStr), Field("user", "user", EmptyStr),
             Field("starttime", "starttime", IntZero), Field("pid", "pid", IntZero),
             Field("progress", "progress", IntZero)}
      [] kind = "snapshot" ->      \* vm_lifecycle.py 133-138
            {Field("name", "name", None), Field("description", "description", EmptyStr),
             Field("creation_time", "snaptime", IntZero), Field("parent", "parent", EmptyStr)}
      [] kind = "backup" ->        \* backup.py 95-102
            {Field("filename", "volid", EmptyStr), Field("vmid", "vmid", EmptyStr),
             Field("size", "size", IntZero), Field("timestamp", "ctime", IntZero),
             Field("format", "format", EmptyStr)}
      [] kind = "container_status" ->   \* container.py 104-121
            {Field("status", "status", "unknown"), Field("name", "hostname", EmptyStr),
             Field("cpu.cores", "cores", IntOne), Field("cpu.usage", "cpu", IntZero),
             Field("memory.used", "mem", IntZero), Field("uptime", "uptime", IntZero)}
      [] kind = "performance" ->   \* container.py 386-401
            {Field("cpu_usage", "cpu", IntZero), Field("memory.used", "mem", IntZero),
             Field("memory.total", "maxmem", IntZero),
             Field("disk_io.read_bytes", "diskread", IntZero),
             Field("disk_io.write_bytes", "diskwrite", IntZero),
             Field("network.in_bytes", "netin", IntZero),
             Field("network.out_bytes", "netout", IntZero)}
      [] kind = "template_details" ->   \* template.py 347-355
            {Field("name", "name", "vm-9000"), Field("description", "description", "No description"),
             Field("cores", "cores", "N/A"), Field("memory", "memory", "N/A"),
             Field("os_type", "ostype", "N/A")}

\* the record built from the payload holding the keys `payload`
Normalize(kind, payload) ==
    [field \in {f.field : f \in Fields(kind)} |->
        LET f == CHOOSE g \in Fields(kind) : g.field = field
        IN IF f.key \in payload THEN "raw:" \o f.key ELSE f.default]

\* One record is built from one payload; `rendered` holds the record.
NormalizeRecord ==
    /\ rendering = NoRendering
    /\ \E kind \in RecordKinds : \E payload \in SUBSET {f.key : f \in Fields(kind)} :
        /\ rendering' = [template |-> kind, part |-> "record", data |-> payload]
        /\ rendered' = Normalize(kind, payload)
    /\ UNCHANGED <<runVars, simpleVars, toolVars, mainVars>>

\* C21: every field of every record built from a raw payload (task, task
\* status, snapshot, backup, container status, performance, template details)
\* has a value, never None, whichever keys the payload lacks.
C21_NoFieldIsNone ==
    rendering.part = "record" =>
        \A field \in DOMAIN rendered : rendered[field] # None

(***************************************************************************)
(* Records with keys missing.  A template reads a key either with          *)
(* `record.get(key, default)`, which always gives a value, or with the     *)
(* subscript `record[key]`, which raises KeyError when the key is missing. *)
(* A record is the set of keys it holds.                                   *)
(***************************************************************************)
RecordTemplates == {"node_list", "node_status", "vm_list", "storage_list", "container_list",
                    "container_status", "container_templates", "vm_templates",
                    "template_details"}
\* the keys a template subscripts, in the order the block's lines are evaluated
Subscripted(t) ==
    CASE t = "node_list" -> <<"node">>                                \* line 38
      [] t \in {"vm_list", "container_list"} ->
            <<"name", "vmid", "status", "node">>                       \* lines 117-119, 178-180
      [] t = "storage_list" -> <<"storage", "type">>                  \* lines 146, 148
      [] t = "container_status" -> <<"vmid">>                         \* line 198
      [] OTHER -> <<>>
RecordKeys == {"node", "name", "vmid", "status", "storage", "type", "memory"}

\* how the rendering of one record ends: the first missing subscripted key
\* raises KeyError and no text is returned
RenderRecord(t, record) ==
    LET keys == Subscripted(t)
        missing == {i \in 1..Len(keys) : keys[i] \notin record}
    IN IF missing = {} THEN [raised |-> "", key |-> ""]
       ELSE [raised |-> "KeyError",
             key |-> keys[CHOOSE i \in missing : \A j \in missing : i <= j]]

\* One template is applied to one record with some keys missing; `rendered`
\* holds how the call ended.
RenderSparse ==
    /\ rendering = NoRendering
    /\ \E t \in RecordTemplates : \E record \in SUBSET RecordKeys :
        /\ rendering' = [template |-> t, part |-> "subscripts", data |-> record]
        /\ rendered' = RenderRecord(t, record)
    /\ UNCHANGED <<runVars, simpleVars, toolVars, mainVars>>

\* C22: rendering never fails on missing data: whichever fields a record
\* lacks (a VM or container without name, status or vmid, a node without
\* node, a storage without type), the template returns its text and does not
\* raise.
C22_RenderingNeverRaises ==
    rendering.part = "subscripts" => rendered.raised = ""

\* The template has returned its text; a static method keeps nothing.
RenderReturn ==
    /\ rendering # NoRendering
    /\ rendering' = NoRendering
    /\ rendered' = <<>>
    /\ UNCHANGED <<runVars, simpleVars, toolVars, mainVars>>

NextRender ==
    \/ RenderOperation
    \/ RenderUsage
    \/ RenderList
    \/ ProjectConfig
    \/ NormalizeRecord
    \/ RenderSparse
    \/ RenderReturn

SpecRender == Init /\ [][NextRender]_vars

(***************************************************************************)
(* SpecRuns: one operation of proxmox_api.py run twice with the same       *)
(* arguments against a remote API that answers the same way both times.    *)
(***************************************************************************)
\* random.randint(100, 999) is drawn from 100..(99 + MaxRandom)
MaxRandom == 4
RandomIds == 100..(99 + MaxRandom)

\* the remote's answer to cluster.nextid.get()
NextIds == {[raises |-> TRUE, id |-> 0]} \cup [raises : {FALSE}, id : {200, 201}]
Invocations ==
    [op : {"clone_template"}, vmid : {"9000", "9001"}, new_vm_name : {"web", "db"},
     nextid : NextIds, post : {"ok", "raise"}]
      \cup [op : {"start_vm"}, vmid : {"100", "101"}, new_vm_name : {""},
            nextid : {[raises |-> FALSE, id |-> 200]}, post : {"ok", "raise"}]

\* get_next_vmid: the remote's next id, or a random one when that call raises
get_next_vmid(nextid, random) == IF nextid.raises THEN random ELSE nextid.id

\* What one run returns.  `random` is what random.randint gives in this run,
\* should the run come to call it.
RunOnce(inv, random) ==
    IF inv.op = "clone_template"
    THEN LET next_vmid == get_next_vmid(inv.nextid, random) IN
         IF inv.post = "raise"
         THEN [error |-> "Failed to clone template " \o inv.vmid \o " on node pve1: boom"]
         ELSE [success |-> TRUE, task_id |-> "UPID:pve1:clone", new_vmid |-> next_vmid,
               message |-> "Started cloning template " \o inv.vmid \o " to create new VM '"
                             \o inv.new_vm_name \o "' with ID " \o ToString(next_vmid)]
    ELSE IF inv.post = "raise"
         THEN [error |-> "Failed to start VM " \o inv.vmid \o " on node pve1: boom"]
         ELSE [success |-> TRUE, task_id |-> "UPID:pve1:start",
               message |-> "Started VM " \o inv.vmid \o " on node pve1"]

\* The operation is run for the first time.
Invoke ==
    /\ invocation = NoInvocation
    /\ \E inv \in Invocations : \E random \in RandomIds :
        /\ invocation' = inv
        /\ outcomes' = <<RunOnce(inv, random)>>
    /\ UNCHANGED <<simpleVars, toolVars, mainVars, renderVars, waiting>>

\* It is run again: same arguments, same answers of the remote.
InvokeAgain ==
    /\ invocation # NoInvocation
    /\ Len(outcomes) = 1
    /\ \E random \in RandomIds :
        outcomes' = Append(outcomes, RunOnce(invocation, random))
    /\ UNCHANGED <<simpleVars, toolVars, mainVars, renderVars, invocation, waiting>>

\* Both results have been compared; nothing is kept.
RunsReturn ==
    /\ Len(outcomes) = 2
    /\ invocation' = NoInvocation
    /\ outcomes' = <<>>
    /\ UNCHANGED <<simpleVars, toolVars, mainVars, renderVars, waiting>>

NextRuns ==
    \/ Invoke
    \/ InvokeAgain
    \/ RunsReturn

SpecRuns == Init /\ [][NextRuns]_vars

\* C23: two runs of the same operation with identical arguments against
\* identical remote responses (identical failures included) return identical
\* results; for clone_template, the same new_vmid and message.
C23_SameInputsSameResult ==
    Len(outcomes) = 2 => outcomes[1] = outcomes[2]

(***************************************************************************)
(* SpecTools: the order of the fan-out listings.                           *)
(***************************************************************************)
FanOutOps == {"get_containers", "get_templates", "list_backups"}
\* the per-node listing calls the operation issued, in the order it issued them
ListingCalls ==
    SelectSeq(remoteLog, LAMBDA c : c.call \in {"lxc.get", "qemu.get", "storage.get"})
\* the position of a node in the cluster node list
NodeIndex(name) == CHOOSE i \in 1..Len(remote.perNode) : NodeName(i) = name
\* the ids of the items of node i that the operation keeps
KeptIds(i) ==
    LET items == remote.perNode[i].items IN
    IF remote.perNode[i].raises THEN {}
    ELSE {items[j].vmid : j \in {k \in 1..Len(items) :
            CASE toolCall.op = "get_templates" -> items[k].template = 1
              [] toolCall.op = "list_backups" -> items[k].content = "backup"
              [] OTHER -> TRUE}}

MaxTimeout == 6
MaxDelay == 1
\* more polls than any wait within the bounds can make
MaxPolls == MaxTimeout + 2

Wait(pc, elapsed, polls, timeout, result) ==
    [pc |-> pc, elapsed |-> elapsed, polls |-> polls, timeout |-> timeout, result |-> result]

\* (mutant of Slept: the clock stands still during time.sleep)
SleptNothing(elapsed, extra) == elapsed
\* the elapsed time after time.sleep(interval)
Slept(elapsed, extra) == elapsed + Interval + extra

\* wait_for_task is called: start_time = time.time()
StartWait ==
    /\ waiting = NotWaiting
    /\ \E timeout \in (0 - 1)..MaxTimeout :
          waiting' = Wait("test", 0, 0, timeout, "none")
    /\ UNCHANGED <<simpleVars, toolVars, mainVars, renderVars, invocation, outcomes>>

\* `while time.time() - start_time < timeout`, and the return after the loop
LoopTest ==
    /\ waiting.pc = "test"
    /\ waiting' = IF waiting.elapsed < waiting.timeout
                  THEN [waiting EXCEPT !.pc = "poll"]
                  ELSE [waiting EXCEPT !.pc = "done", !.result = "timeout"]
    /\ UNCHANGED <<simpleVars, toolVars, mainVars, renderVars, invocation, outcomes>>

\* the status read: the task is stopped with exit status OK or not OK, the read
\* raises, or the task has any other status
Poll ==
    /\ waiting.pc = "poll"
    /\ waiting.polls < MaxPolls
    /\ \E answer \in {"stopped_ok", "stopped_error", "raise", "running"} :
       \E took \in 0..MaxDelay :
          waiting' =
            CASE answer = "stopped_ok" ->
                    [waiting EXCEPT !.pc = "done", !.result = "success",
                                    !.polls = @ + 1, !.elapsed = @ + took]
              [] answer = "stopped_error" ->
                    [waiting EXCEPT !.pc = "done", !.result = "task_failure",
                                    !.polls = @ + 1, !.elapsed = @ + took]
              [] answer = "raise" ->
                    [waiting EXCEPT !.pc = "done", !.result = "poll_error",
                                    !.polls = @ + 1, !.elapsed = @ + took]
              [] OTHER ->
                    [waiting EXCEPT !.pc = "sleep", !.polls = @ + 1, !.elapsed = @ + took]
    /\ UNCHANGED <<simpleVars, toolVars, mainVars, renderVars, invocation, outcomes>>

\* time.sleep(interval)
Sleep ==
    /\ waiting.pc = "sleep"
    /\ \E extra \in 0..MaxDelay :
          waiting' = [waiting EXCEPT !.pc = "test", !.elapsed = Slept(@, extra)]
    /\ UNCHANGED <<simpleVars, toolVars, mainVars, renderVars, invocation, outcomes>>

\* The caller has the result.
WaitReturn ==
    /\ waiting.pc = "done"
    /\ waiting' = NotWaiting
    /\ UNCHANGED <<simpleVars, toolVars, mainVars, renderVars, invocation, outcomes>>

NextWait ==
    \/ StartWait
    \/ LoopTest
    \/ Poll
    \/ Sleep
    \/ WaitReturn

\* the process keeps running: a step that can be taken is eventually taken
SpecWait == Init /\ [][NextWait]_vars /\ WF_vars(NextWait)

\* C27: wait_for_task always returns: every call ends, with a success, a
\* task-failure, a poll-error or a timeout result, after at most
\* ceil(timeout / interval) polls (none when timeout <= 0), whatever the remote
\* task does.
C27_WaitForTaskReturns ==
    /\ [](waiting.pc = "poll" =>
            /\ waiting.polls * Interval <= waiting.elapsed
            /\ waiting.elapsed < waiting.timeout)
    /\ [](waiting.pc = "done" =>
            /\ waiting.result \in {"success", "task_failure", "poll_error", "timeout"}
            /\ waiting.polls <= (IF waiting.timeout > 0
                                 THEN (waiting.timeout + Interval - 1) \div Interval ELSE 0))
    /\ (waiting.pc = "test") ~> (waiting.pc = "done")
\* a wait that polled three times, the task running each time, and timed out
C27_Witness ==
    /\ waiting.pc = "done"
    /\ waiting.result = "timeout"
    /\ waiting.polls = 3
    /\ waiting.timeout = MaxTimeout

(***************************************************************************)
(* SpecTools: the order of the mutating calls of create_template and       *)
(* clone_template.                                                         *)
(***************************************************************************)
\* the positions in the call log of the config.put calls with the given content
PutsOf(what) ==
    {i \in 1..Len(remoteLog) : remoteLog[i].call = "config.put" /\ remoteLog[i].arg = what}

\* C29: create_template with a name or description issues the name/description
\* update before the template=1 conversion and the conversion at most once,
\* exactly once when it reports success; it reports success only when every
\* update it issued succeeded; when the name/description update fails the
\* conversion is never issued.
C29_UpdateBeforeConversion ==
    (toolCall.op = "create_template" /\ (toolCall.name \/ toolCall.description)) =>
        /\ Cardinality(PutsOf("template")) <= 1
        /\ Cardinality(PutsOf("name/description")) <= 1
        /\ \A c \in PutsOf("template") :
              PutsOf("name/description") # {} /\ \A u \in PutsOf("name/description") : u < c
        /\ toolResult.success =>
              /\ Cardinality(PutsOf("template")) = 1
              /\ ~remote.writes[1]
              /\ ~remote.writes[2]
        /\ (PutsOf("name/description") # {} /\ remote.writes[1]) =>
              (PutsOf("template") = {} /\ ~toolResult.success)
\* a VM converted with a new name: the update, then the conversion, then success
C29_Witness ==
    /\ toolCall.op = "create_template"
    /\ toolCall.name
    /\ toolResult.success
    /\ PutsOf("name/description") = {2}
    /\ PutsOf("template") = {3}
\* the name update fails and the conversion is not issued
C29_WitnessFailedUpdate ==
    /\ toolCall.op = "create_template"
    /\ toolCall.name
    /\ remote.writes[1]
    /\ PutsOf("name/description") = {2}
    /\ PutsOf("template") = {}
    /\ toolResult.via = "_handle_error"

\* C30: the outcome of clone_template depends only on the clone post.  When the
\* post succeeds the operation returns success with the task reference the
\* post returned, whether the description update succeeds, fails or is
\* skipped; that update is attempted at most once, after the post, and only
\* when both description and target_vmid are given; when the post fails no
\* description update is attempted.
C30_CloneOutcomeFollowsPost ==
    toolCall.op = "clone_template" =>
        /\ Cardinality(PutsOf("description")) <= 1
        /\ PutsOf("description") # {} <=>
              (~remote.writes[1] /\ toolCall.description /\ toolCall.target_vmid)
        /\ \A u \in PutsOf("description") : remoteLog[u - 1].call = "clone.post"
        /\ ~remote.writes[1] =>
              /\ toolResult.via = "_format_response"
              /\ toolResult.success
              /\ toolResult.task_id = remote.posted
        /\ remote.writes[1] => ~toolResult.success
\* the clone is posted, the description update raises, and success is returned
C30_Witness ==
    /\ toolCall.op = "clone_template"
    /\ toolCall.description
    /\ toolCall.target_vmid
    /\ remote.writes = <<FALSE, TRUE>>
    /\ PutsOf("description") = {2}
    /\ toolResult.success
    /\ toolResult.task_id = remote.posted

====
